---- MODULE Spec2Model ----
(***************************************************************************)
(* A model of the reference store, the receive-pack update path and the    *)
(* rebase state machine of the library (src/src/index.ts and its helper    *)
(* modules).                                                               *)
(*                                                                         *)
(* Every suspension point (await) of a ref operation is one step of the    *)
(* operation.  A step is a pure operator from (filesystem, call frame) to  *)
(* (filesystem, call frame); the serialized specification Spec runs a call *)
(* to completion in one action, the concurrent specification SpecConc      *)
(* interleaves the steps of two callers.                                   *)
(***************************************************************************)
EXTENDS Integers, Sequences, FiniteSets, TLC

\* ------------------------------------------------------------------------
\* Object ids.  An oid is the sequence of its characters.
\* ------------------------------------------------------------------------

Sha1HexLen == 40

Sha256HexLen == 64

HexLower == {"0", "1", "2", "3", "4", "5", "6", "7", "8", "9",
             "a", "b", "c", "d", "e", "f"}

Rep(c, n) == [i \in 1..n |-> c]

\* /^[0-9a-f]{40}$|^[0-9a-f]{64}$/
isObjectId(value) ==
    /\ Len(value) \in {Sha1HexLen, Sha256HexLen}
    /\ \A i \in 1..Len(value) : value[i] \in HexLower

LowerOf(c) ==
    CASE c = "A" -> "a" [] c = "B" -> "b" [] c = "C" -> "c"
      [] c = "D" -> "d" [] c = "E" -> "e" [] c = "F" -> "f"
      [] OTHER -> c

toLowerCase(s) == [i \in 1..Len(s) |-> LowerOf(s[i])]

\* "0".repeat(n)
ZeroOid(n) == Rep("0", n)

\* resolveRef's null.  No oid is the empty string, so <<>> is free to stand
\* for it.
Null == <<>>

OidZ40 == ZeroOid(Sha1HexLen)
OidA40 == Rep("a", Sha1HexLen)
OidB40 == Rep("b", Sha1HexLen)
OidA64 == Rep("a", Sha256HexLen)
\* Upper-case hex: not an object id for isObjectId.
OidUpper == Rep("A", Sha1HexLen)

OidInputs == {OidZ40, OidA40, OidB40, OidA64, OidUpper}

\* ------------------------------------------------------------------------
\* Text helpers.
\* ------------------------------------------------------------------------

Whitespace == {" ", "\t", "\n", "\r"}

RECURSIVE trimStart(_)
trimStart(s) ==
    IF Len(s) > 0 /\ s[1] \in Whitespace THEN trimStart(Tail(s)) ELSE s

RECURSIVE trimEnd(_)
trimEnd(s) ==
    IF Len(s) > 0 /\ s[Len(s)] \in Whitespace
    THEN trimEnd(SubSeq(s, 1, Len(s) - 1))
    ELSE s

\* String.prototype.trim
trim(s) == trimEnd(trimStart(s))

\* ------------------------------------------------------------------------
\* Ref names.  A ref name is the sequence of its slash-separated segments.
\* ------------------------------------------------------------------------

RefMain == <<"refs", "heads", "main">>
RefTag == <<"refs", "tags", "v1">>

Refs == {RefMain, RefTag}

\* What callers pass: a bare name ("heads/main") and a full name.
RefInputs == {<<"heads", "main">>, RefTag}

\* startsWith("refs/") ? name : "refs/" + name
normalizeRefName(refName) ==
    IF Len(refName) >= 2 /\ refName[1] = "refs"
    THEN refName
    ELSE <<"refs">> \o refName

\* normalizeRefPrefix (unnamed/part_010 7-13).  A prefix is the sequence of
\* its slash-separated segments too, so "refs/" is <<"refs", "">> and the
\* empty prefix is <<>>.
normalizeRefPrefix(refPrefix) ==
    IF refPrefix = <<>> THEN <<>>
    ELSE IF refPrefix = <<"refs">> THEN <<"refs", "">>
    ELSE IF Len(refPrefix) >= 2 /\ refPrefix[1] = "refs" THEN refPrefix
    ELSE normalizeRefName(refPrefix)

\* refName.startsWith(prefix), for a prefix that ends with a slash.
StartsWithDir(refName, prefix) ==
    /\ Len(refName) >= Len(prefix)
    /\ SubSeq(refName, 1, Len(prefix) - 1) = SubSeq(prefix, 1, Len(prefix) - 1)

\* refName.startsWith(`${prefix}/`)
StartsWithSegments(refName, prefix) ==
    /\ Len(refName) > Len(prefix)
    /\ SubSeq(refName, 1, Len(prefix)) = prefix

\* matchesRefPrefix (unnamed/part_010 15-23)
matchesRefPrefix(refName, refPrefix) ==
    LET normalizedPrefix == normalizeRefPrefix(refPrefix)
    IN IF normalizedPrefix = <<>> THEN TRUE
       ELSE IF normalizedPrefix[Len(normalizedPrefix)] = ""
            THEN StartsWithDir(refName, normalizedPrefix)
            ELSE \/ refName = normalizedPrefix
                 \/ StartsWithSegments(refName, normalizedPrefix)

\* The prefixes callers pass to listRefs: the default, the empty prefix, a
\* bare directory, a full ref name, a partial segment and a directory with
\* its slash.
PrefixInputs ==
    {<<"refs">>, <<>>, <<"heads">>, <<"refs", "tags", "v1">>,
     <<"refs", "hea">>, <<"refs", "heads", "">>}

\* ------------------------------------------------------------------------
\* String.prototype.localeCompare.  Its result depends on the collation of
\* the runtime: the ICU root collation of a build with Intl, or the order of
\* the UTF-16 code units of a build without.  The units of a key are its
\* characters; the units of a ref name are its segments, which order the
\* modelled names as their characters do.
\* ------------------------------------------------------------------------

Collations == {"icu", "codeunit"}

\* The units, by UTF-16 code unit.
CodeUnitOrder ==
    <<"", ".", "/", "0", "1", "2", "3", "4", "5", "6", "7", "8", "9",
      "A", "B", "C", "D", "E", "F", "HEAD", "\\",
      "a", "b", "c", "d", "dev", "e", "f", "g", "i", "n", "t", "x",
      "hea", "heads", "main", "origin", "refs", "remotes", "tags", "v1">>

\* The units, by ICU primary weight: punctuation, digits, then the letters
\* whatever their case.
IcuPrimaryOrder ==
    <<{""}, {"."}, {"/"}, {"\\"}, {"0"}, {"1"}, {"2"}, {"3"}, {"4"}, {"5"},
      {"6"}, {"7"}, {"8"}, {"9"}, {"a", "A"}, {"b", "B"}, {"c", "C"},
      {"d", "D"}, {"dev"}, {"e", "E"}, {"f", "F"}, {"g"}, {"i"}, {"n"}, {"t"},
      {"x"}, {"hea"}, {"HEAD"}, {"heads"}, {"main"}, {"origin"}, {"refs"},
      {"remotes"}, {"tags"}, {"v1"}>>

UpperCase == {"A", "B", "C", "D", "E", "F"}

CodeUnit(u) == CHOOSE i \in 1..Len(CodeUnitOrder) : CodeUnitOrder[i] = u

IcuPrimary(u) == CHOOSE i \in 1..Len(IcuPrimaryOrder) : u \in IcuPrimaryOrder[i]

\* ICU orders lower case before upper case, at the tertiary level.
IcuTertiary(u) == IF u \in UpperCase THEN 1 ELSE 0

RECURSIVE CompareWeights(_, _)
CompareWeights(a, b) ==
    IF a = <<>> /\ b = <<>> THEN 0
    ELSE IF a = <<>> THEN -1
    ELSE IF b = <<>> THEN 1
    ELSE IF Head(a) < Head(b) THEN -1
    ELSE IF Head(a) > Head(b) THEN 1
    ELSE CompareWeights(Tail(a), Tail(b))

\* a.localeCompare(b)
localeCompare(a, b, collation) ==
    IF collation = "codeunit"
    THEN CompareWeights([i \in 1..Len(a) |-> CodeUnit(a[i])],
                        [i \in 1..Len(b) |-> CodeUnit(b[i])])
    ELSE LET primary ==
                 CompareWeights([i \in 1..Len(a) |-> IcuPrimary(a[i])],
                                [i \in 1..Len(b) |-> IcuPrimary(b[i])])
         IN IF primary # 0 THEN primary
            ELSE CompareWeights([i \in 1..Len(a) |-> IcuTertiary(a[i])],
                                [i \in 1..Len(b) |-> IcuTertiary(b[i])])

\* keys.sort((a, b) => a.localeCompare(b)), for distinct keys.
RECURSIVE sortByLocaleCompare(_, _)
sortByLocaleCompare(keys, collation) ==
    IF keys = {} THEN <<>>
    ELSE LET first == CHOOSE a \in keys :
                          \A b \in keys : localeCompare(a, b, collation) <= 0
         IN <<first>> \o sortByLocaleCompare(keys \ {first}, collation)

\* ------------------------------------------------------------------------
\* Files.
\* ------------------------------------------------------------------------

NoFile == [exists |-> FALSE, text |-> <<>>]

TextFile(text) == [exists |-> TRUE, text |-> text]

\* `${oid}\n`
LooseText(oid) == oid \o <<"\n">>

\* A symbolic ref, as clone writes to refs/remotes/origin/HEAD.
SymbolicText == <<"r", "e", "f", ":", " ", "x", "\n">>

\* packed-refs is a sequence of newline-terminated lines.
PackedEntry(oid, refName) == [kind |-> "entry", oid |-> oid, name |-> refName]
PackedPeeled(oid) == [kind |-> "peeled", oid |-> oid, name |-> <<>>]
PackedComment == [kind |-> "comment", oid |-> <<>>, name |-> <<>>]
PackedBlank == [kind |-> "blank", oid |-> <<>>, name |-> <<>>]

\* trimmed.match(/^([0-9a-f]{40}|[0-9a-f]{64})\s+(\S+)$/)
PackedLineMatches(line) ==
    line.kind = "entry" /\ isObjectId(line.oid) /\ Len(line.name) > 0

\* text.split(/\r?\n/): the lines and the empty string after the last LF.
SplitLines(lines) == lines \o <<PackedBlank>>

SetMax(S) == CHOOSE x \in S : \A y \in S : y <= x

\* parsePackedRefs(text).get(refName) ?? null: the last matching line wins.
parsePackedRefs(lines, refName) ==
    LET split == SplitLines(lines)
        hits == {i \in 1..Len(split) :
                    PackedLineMatches(split[i]) /\ split[i].name = refName}
    IN IF hits = {} THEN Null ELSE split[SetMax(hits)].oid

RECURSIVE DropLoop(_, _, _)
DropLoop(lines, i, target) ==
    IF i > Len(lines) THEN <<>>
    ELSE IF PackedLineMatches(lines[i]) /\ lines[i].name = target
         THEN IF i + 1 <= Len(lines) /\ lines[i + 1].kind = "peeled"
              THEN DropLoop(lines, i + 2, target)
              ELSE DropLoop(lines, i + 1, target)
         ELSE <<lines[i]>> \o DropLoop(lines, i + 1, target)

RECURSIVE PopBlank(_)
PopBlank(lines) ==
    IF Len(lines) > 0 /\ lines[Len(lines)] = PackedBlank
    THEN PopBlank(SubSeq(lines, 1, Len(lines) - 1))
    ELSE lines

dropPackedRefEntry(lines, target) ==
    LET split == SplitLines(lines)
    IN [nextLines |-> PopBlank(DropLoop(split, 1, target)),
        removed |-> \E i \in 1..Len(split) :
                        PackedLineMatches(split[i]) /\ split[i].name = target]

\* ------------------------------------------------------------------------
\* Reflog.
\* ------------------------------------------------------------------------

\* The clock readings Date.now() may give.
Timestamps == {1700000000}

\* `${oldOid} ${newOid} repo <repo@example.local> ${timestamp} +0000\t${message}\n`
formatReflogEntry(oldOid, newOid, message, timestamp) ==
    [oldOid |-> oldOid, newOid |-> newOid, ident |-> "repo <repo@example.local>",
     timestamp |-> timestamp, tz |-> "+0000", message |-> message]

VARIABLES
    loose,        \* ref name -> the loose ref file <gitDir>/<ref>
    packed,       \* the file <gitDir>/packed-refs
    reflog,       \* ref name -> the lines of <gitDir>/logs/<ref>
    proc,         \* caller -> the frame of its current (or last) call
    calls,        \* history: ref name -> the mutating calls completed on it
    rebaseFile,   \* <gitDir>/rebase-codex/state.json
    lastRebase,   \* history: the last rebase call and what it returned
    objects,      \* oid -> the loose object file <gitDir>/objects/<oid>
    partialClone, \* the partial-clone state file, with the promisor table
    indexFile,    \* <gitDir>/index
    sparseFile,   \* the sparse-checkout state file
    lastObj,      \* history: the current call on the object store
    objCalls,     \* history: the calls made on the object store
    worktree,     \* path -> the bytes of the file at <worktree>/<path>
    worktrees,    \* the linked-worktree state file
    submodules,   \* the submodule state file
    treeCall,     \* the frame of the current call on the worktree
    treeCalls,    \* history: the calls made on the worktree
    pktCall,      \* the frame of the current call of the pkt-line codec
    cloneCall,    \* the frame of the current clone
    queryCall     \* the frame of the current query of the history

vars == <<loose, packed, reflog, proc, calls, rebaseFile, lastRebase,
          objects, partialClone, indexFile, sparseFile, lastObj, objCalls,
          worktree, worktrees, submodules, treeCall, treeCalls,
          pktCall, cloneCall, queryCall>>

refVars == <<loose, packed, reflog, proc, calls>>

rebaseVars == <<rebaseFile, lastRebase>>

objVars == <<objects, partialClone, indexFile, sparseFile, lastObj, objCalls>>

treeVars == <<worktree, worktrees, submodules, treeCall, treeCalls>>

wireVars == <<pktCall, cloneCall, queryCall>>

\* ------------------------------------------------------------------------
\* Call frames.  pc names the next suspension point of the call; ret is the
\* point resolveRef returns to.  The rest is history: pre is the filesystem
\* when the call was made, landed says the call has finished writing the ref,
\* sawLanded and sawRunning are the callers that had landed, or were running,
\* when the call was made.
\* ------------------------------------------------------------------------

Procs == {1, 2}

Fs(l, p, r) == [loose |-> l, packed |-> p, reflog |-> r]

World == Fs(loose, packed, reflog)

NoPackedFile == [exists |-> FALSE, lines |-> <<>>]

PackedFile(lines) == [exists |-> TRUE, lines |-> lines]

EmptyFs == Fs([r \in Refs |-> NoFile], NoPackedFile, [r \in Refs |-> <<>>])

IdleFrame ==
    [pc |-> "idle", op |-> "none", refName |-> <<>>, oldArg |-> <<>>,
     newOid |-> <<>>, message |-> "", timestamp |-> 0, ret |-> "",
     cur |-> Null, oldOid |-> <<>>, nextLines |-> <<>>, result |-> "",
     prefix |-> <<>>, collation |-> "", packedRefs |-> {}, listing |-> <<>>,
     pre |-> EmptyFs, landed |-> FALSE, sawLanded |-> {}, sawRunning |-> {}]

Frame(w, op, refName, oldArg, newOid, message, timestamp) ==
    [IdleFrame EXCEPT !.op = op, !.refName = refName, !.oldArg = oldArg,
                      !.newOid = newOid, !.message = message,
                      !.timestamp = timestamp, !.pre = w]

Goto(w, pr, pc) == [w |-> w, pr |-> [pr EXCEPT !.pc = pc]]

\* The call throws.
Throw(w, pr, code) ==
    [w |-> w, pr |-> [pr EXCEPT !.pc = "done", !.result = code]]

\* The call returns.
Return(w, pr) ==
    [w |-> w, pr |-> [pr EXCEPT !.pc = "done", !.result = "ok"]]

\* ------------------------------------------------------------------------
\* resolveRef (index.ts 3085-3100) and readPackedRefsMap (3034-3045).
\* ------------------------------------------------------------------------

EnterResolveRef(w, pr, ret) ==
    [w |-> w, pr |-> [pr EXCEPT !.pc = "rs_stat", !.ret = ret]]

ResolveReturn(w, pr, value) ==
    [w |-> w, pr |-> [pr EXCEPT !.pc = pr.ret, !.cur = value]]

\* looseExists = await pathExists(fs, loosePath)
resolveRef_stat(w, pr) ==
    Goto(w, pr, IF w.loose[pr.refName].exists THEN "rs_read" ELSE "rs_pstat")

\* Mutant: the packed entry is consulted even when the loose value is an oid.
LooseWins_Never(looseValue) == FALSE

\* The loose value wins when it is an object id.
LooseWins(looseValue) == isObjectId(looseValue)

\* looseValue = (await fs.readFile(loosePath)).trim()
resolveRef_read(w, pr) ==
    LET file == w.loose[pr.refName]
    IN IF ~file.exists
       THEN Throw(w, pr, "ENOENT")
       ELSE IF LooseWins(trim(file.text))
            THEN ResolveReturn(w, pr, trim(file.text))
            ELSE Goto(w, pr, "rs_pstat")

\* packedExists = await pathExists(fs, packedRefsPath)
readPackedRefsMap_stat(w, pr) ==
    IF w.packed.exists
    THEN Goto(w, pr, "rs_pread")
    ELSE ResolveReturn(w, pr, Null)

\* parsePackedRefs(await fs.readFile(packedRefsPath)).get(ref) ?? null
readPackedRefsMap_read(w, pr) ==
    IF ~w.packed.exists
    THEN Throw(w, pr, "ENOENT")
    ELSE ResolveReturn(w, pr, parsePackedRefs(w.packed.lines, pr.refName))

\* ------------------------------------------------------------------------
\* updateRef (index.ts 3222-3243).
\* ------------------------------------------------------------------------

EnterUpdateRef(w, pr) ==
    IF ~isObjectId(pr.newOid)
    THEN Throw(w, pr, "INVALID_ARGUMENT")
    ELSE EnterResolveRef(w, pr, "ur_write")

\* Mutant: the previous value is not read.
PreviousOid_AlwaysZero(cur, oid) == ZeroOid(Len(oid))

\* (await this.resolveRef(ref)) ?? "0".repeat(oid.length)
PreviousOid(cur, oid) == IF cur = Null THEN ZeroOid(Len(oid)) ELSE cur

\* await fs.writeFile(refPath, `${oid}\n`)
updateRef_write(w, pr) ==
    [w |-> [w EXCEPT !.loose[pr.refName] = TextFile(LooseText(pr.newOid))],
     pr |-> [pr EXCEPT !.pc = "ur_log",
                       !.oldOid = PreviousOid(pr.cur, pr.newOid),
                       !.landed = TRUE]]

\* Mutant: the new line goes in front of the file.
appendFile_Prepend(lines, entry) == <<entry>> \o lines

\* fs.appendFile(path, data)
appendFile(lines, entry) == Append(lines, entry)

\* await fs.appendFile(reflogPath, formatReflogEntry(oldOid, oid, message))
updateRef_log(w, pr) ==
    Return([w EXCEPT !.reflog[pr.refName] =
                appendFile(@, formatReflogEntry(pr.oldOid, pr.newOid,
                                                pr.message, pr.timestamp))],
           pr)

\* ------------------------------------------------------------------------
\* deleteRef (index.ts 3151-3191).
\* ------------------------------------------------------------------------

EnterDeleteRef(w, pr) == EnterResolveRef(w, pr, "dr_check")

\* if (oldOid === null) throw NOT_FOUND
deleteRef_check(w, pr) ==
    IF pr.cur = Null
    THEN Throw(w, pr, "NOT_FOUND")
    ELSE [w |-> w, pr |-> [pr EXCEPT !.pc = "dr_stat", !.oldOid = pr.cur]]

\* Mutant: the loose file is left in place.
deleteRef_stat_KeepLoose(w, pr) == Goto(w, pr, "dr_pstat")

\* looseExists = await pathExists(fs, loosePath)
deleteRef_stat(w, pr) ==
    Goto(w, pr, IF w.loose[pr.refName].exists THEN "dr_unlink" ELSE "dr_pstat")

\* await fs.unlink(loosePath)
deleteRef_unlink(w, pr) ==
    IF ~w.loose[pr.refName].exists
    THEN Throw(w, pr, "ENOENT")
    ELSE Goto([w EXCEPT !.loose[pr.refName] = NoFile], pr, "dr_pstat")

\* packedExists = await pathExists(fs, packedRefsPath)
deleteRef_pstat(w, pr) ==
    IF w.packed.exists
    THEN Goto(w, pr, "dr_pread")
    ELSE [w |-> w, pr |-> [pr EXCEPT !.pc = "dr_log", !.landed = TRUE]]

\* Mutant: packed-refs is left as it is.
deleteRef_pread_KeepPacked(w, pr) ==
    [w |-> w, pr |-> [pr EXCEPT !.pc = "dr_log", !.landed = TRUE]]

\* dropped = dropPackedRefEntry(await fs.readFile(packedRefsPath), ref)
deleteRef_pread(w, pr) ==
    IF ~w.packed.exists
    THEN Throw(w, pr, "ENOENT")
    ELSE LET dropped == dropPackedRefEntry(w.packed.lines, pr.refName)
         IN IF dropped.removed
            THEN [w |-> w,
                  pr |-> [pr EXCEPT !.pc = "dr_pwrite",
                                    !.nextLines = dropped.nextLines]]
            ELSE [w |-> w, pr |-> [pr EXCEPT !.pc = "dr_log", !.landed = TRUE]]

\* await fs.writeFile(packedRefsPath, dropped.nextText)
deleteRef_pwrite(w, pr) ==
    [w |-> [w EXCEPT !.packed = PackedFile(pr.nextLines)],
     pr |-> [pr EXCEPT !.pc = "dr_log", !.landed = TRUE]]

\* await fs.appendFile(reflogPath, formatReflogEntry(oldOid, zeroOid, message))
deleteRef_log(w, pr) ==
    Return([w EXCEPT !.reflog[pr.refName] =
                appendFile(@, formatReflogEntry(pr.oldOid,
                                                ZeroOid(Len(pr.oldOid)),
                                                pr.message, pr.timestamp))],
           pr)

\* ------------------------------------------------------------------------
\* createRef (index.ts 3102-3119).
\* ------------------------------------------------------------------------

EnterCreateRef(w, pr) ==
    IF ~isObjectId(pr.newOid)
    THEN Throw(w, pr, "INVALID_ARGUMENT")
    ELSE EnterResolveRef(w, pr, "cr_check")

\* Mutant: an existing ref is overwritten.
createRef_check_Overwrite(w, pr) == EnterUpdateRef(w, pr)

\* if (existing !== null) throw ALREADY_EXISTS; await this.updateRef(...)
createRef_check(w, pr) ==
    IF pr.cur # Null
    THEN Throw(w, pr, "ALREADY_EXISTS")
    ELSE EnterUpdateRef(w, pr)

\* ------------------------------------------------------------------------
\* listRefs (index.ts 3121-3136).  A Map is the set of its <<key, value>>
\* pairs.
\* ------------------------------------------------------------------------

MapKeys(map) == {entry[1] : entry \in map}

MapGet(map, key) == (CHOOSE entry \in map : entry[1] = key)[2]

\* parsePackedRefs(text), the whole map.
parsePackedRefsMap(lines) ==
    LET split == SplitLines(lines)
        names == {split[i].name : i \in {j \in 1..Len(split) :
                                            PackedLineMatches(split[j])}}
    IN {<<name, parsePackedRefs(lines, name)>> : name \in names}

\* readPackedRefsMap()
readPackedRefsMap(w) ==
    IF w.packed.exists THEN parsePackedRefsMap(w.packed.lines) ELSE {}

\* readLooseRefsMap(): the files under refs/ whose trimmed content is an
\* object id.
readLooseRefsMap(w) ==
    {<<refName, trim(w.loose[refName].text)>> :
        refName \in {r \in DOMAIN w.loose : /\ w.loose[r].exists
                                  /\ isObjectId(trim(w.loose[r].text))}}

\* Mutant: a packed entry shadows the loose ref.
mergedRefs_PackedShadows(packedRefs, looseRefs) ==
    packedRefs \cup {entry \in looseRefs : entry[1] \notin MapKeys(packedRefs)}

\* new Map(packedRefs), then mergedRefs.set(refName, oid) for each loose ref.
mergedRefs(packedRefs, looseRefs) ==
    looseRefs \cup {entry \in packedRefs : entry[1] \notin MapKeys(looseRefs)}

EnterListRefs(w, pr) == Goto(w, pr, "lr_packed")

\* packedRefs = await this.readPackedRefsMap()
listRefs_packed(w, pr) ==
    [w |-> w, pr |-> [pr EXCEPT !.pc = "lr_loose",
                                !.packedRefs = readPackedRefsMap(w)]]

\* looseRefs = await this.readLooseRefsMap(); merge, filter, map, sort.
listRefs_loose(w, pr) ==
    LET merged == mergedRefs(pr.packedRefs, readLooseRefsMap(w))
        names == {refName \in MapKeys(merged) :
                     matchesRefPrefix(refName, pr.prefix)}
        sorted == sortByLocaleCompare(names, pr.collation)
    IN Return(w, [pr EXCEPT !.listing =
                     [i \in 1..Len(sorted) |->
                         [refName |-> sorted[i],
                          oid |-> MapGet(merged, sorted[i])]]])

\* ------------------------------------------------------------------------
\* receivePackUpdate (index.ts 2840-2879).
\* ------------------------------------------------------------------------

\* The argument checks, before the first await.
EnterReceivePackUpdate(w, pr) ==
    IF ~isObjectId(pr.oldArg) \/ ~isObjectId(pr.newOid)
    THEN Throw(w, pr, "INVALID_ARGUMENT")
    ELSE IF Len(pr.oldArg) # Len(pr.newOid)
         THEN Throw(w, pr, "INVALID_ARGUMENT")
         ELSE EnterResolveRef(
                  w,
                  [pr EXCEPT !.oldArg = toLowerCase(pr.oldArg),
                             !.newOid = toLowerCase(pr.newOid)],
                  "rp_check")

\* Mutant: an absent ref is not taken for the zero oid.
ExpectedCurrentOid_AbsentIsNull(currentOid, zeroOid) == currentOid

\* expectedCurrentOid = currentOid === null ? zeroOid : currentOid
ExpectedCurrentOid(currentOid, zeroOid) ==
    IF currentOid = Null THEN zeroOid ELSE currentOid

\* Mutant: the old oid is not compared.
receivePackUpdate_check_NoCompare(w, pr) ==
    IF pr.newOid = ZeroOid(Len(pr.newOid))
    THEN IF pr.cur # Null THEN EnterDeleteRef(w, pr) ELSE Return(w, pr)
    ELSE EnterUpdateRef(w, pr)

\* Mutant: a failed compare removes the ref's loose file before it throws.
receivePackUpdate_check_FailureWrites(w, pr) ==
    LET zeroOid == ZeroOid(Len(pr.newOid))
    IN IF ExpectedCurrentOid(pr.cur, zeroOid) # pr.oldArg
       THEN Throw([w EXCEPT !.loose[pr.refName] = NoFile], pr, "LOCK_CONFLICT")
       ELSE IF pr.newOid = zeroOid
            THEN IF pr.cur # Null
                 THEN EnterDeleteRef(w, pr)
                 ELSE Return(w, pr)
            ELSE EnterUpdateRef(w, pr)

\* The compare of the compare-and-swap, and the dispatch on newOid.
receivePackUpdate_check(w, pr) ==
    LET zeroOid == ZeroOid(Len(pr.newOid))
    IN IF ExpectedCurrentOid(pr.cur, zeroOid) # pr.oldArg
       THEN Throw(w, pr, "LOCK_CONFLICT")
       ELSE IF pr.newOid = zeroOid
            THEN IF pr.cur # Null
                 THEN EnterDeleteRef(w, pr)
                 ELSE Return(w, pr)
            ELSE EnterUpdateRef(w, pr)

\* ------------------------------------------------------------------------
\* One step of a call, and a call run to completion.
\* ------------------------------------------------------------------------

Enter(w, pr) ==
    CASE pr.op = "resolveRef" -> EnterResolveRef(w, pr, "rs_done")
      [] pr.op = "updateRef" -> EnterUpdateRef(w, pr)
      [] pr.op = "createRef" -> EnterCreateRef(w, pr)
      [] pr.op = "deleteRef" -> EnterDeleteRef(w, pr)
      [] pr.op = "receivePackUpdate" -> EnterReceivePackUpdate(w, pr)
      [] pr.op = "listRefs" -> EnterListRefs(w, pr)

StepOf(w, pr) ==
    CASE pr.pc = "rs_stat" -> resolveRef_stat(w, pr)
      [] pr.pc = "rs_read" -> resolveRef_read(w, pr)
      [] pr.pc = "rs_pstat" -> readPackedRefsMap_stat(w, pr)
      [] pr.pc = "rs_pread" -> readPackedRefsMap_read(w, pr)
      [] pr.pc = "rs_done" -> Return(w, pr)
      [] pr.pc = "ur_write" -> updateRef_write(w, pr)
      [] pr.pc = "ur_log" -> updateRef_log(w, pr)
      [] pr.pc = "dr_check" -> deleteRef_check(w, pr)
      [] pr.pc = "dr_stat" -> deleteRef_stat(w, pr)
      [] pr.pc = "dr_unlink" -> deleteRef_unlink(w, pr)
      [] pr.pc = "dr_pstat" -> deleteRef_pstat(w, pr)
      [] pr.pc = "dr_pread" -> deleteRef_pread(w, pr)
      [] pr.pc = "dr_pwrite" -> deleteRef_pwrite(w, pr)
      [] pr.pc = "dr_log" -> deleteRef_log(w, pr)
      [] pr.pc = "cr_check" -> createRef_check(w, pr)
      [] pr.pc = "rp_check" -> receivePackUpdate_check(w, pr)
      [] pr.pc = "lr_packed" -> listRefs_packed(w, pr)
      [] pr.pc = "lr_loose" -> listRefs_loose(w, pr)

RECURSIVE RunToEnd(_)
RunToEnd(c) == IF c.pr.pc = "done" THEN c ELSE RunToEnd(StepOf(c.w, c.pr))

\* A call with no other caller running between its steps.
Run(w, pr) == RunToEnd(Enter(w, pr))

\* resolveRef as one read of the filesystem w.
resolveRef(w, refName) ==
    Run(w, Frame(w, "resolveRef", refName, <<>>, <<>>, "", 0)).pr.cur

\* ------------------------------------------------------------------------
\* The repository a caller opens, and the serialized API: one call at a
\* time, each run to completion (spec section 5: within one repository,
\* operations are serialized by the caller).
\* ------------------------------------------------------------------------

\* The most reflog lines the model lets a repository accumulate.
MaxReflogLines == 2

LooseInits ==
    {l \in [Refs -> {NoFile, TextFile(LooseText(OidA40)),
                     TextFile(SymbolicText)}] : l[RefTag] = NoFile}

PackedInits ==
    {NoPackedFile,
     PackedFile(<<PackedEntry(OidA40, RefMain)>>),
     PackedFile(<<PackedComment, PackedEntry(OidB40, RefMain),
                  PackedEntry(OidA40, RefTag), PackedPeeled(OidB40)>>)}

DefaultMessages ==
    [resolveRef |-> "", updateRef |-> "update-ref", createRef |-> "refs-create",
     deleteRef |-> "refs-delete", receivePackUpdate |-> "receive-pack"]

\* message = <default>
MessageInputs(op) == {DefaultMessages[op]}

RECURSIVE SumLen(_, _)
SumLen(f, S) ==
    IF S = {} THEN 0
    ELSE LET r == CHOOSE x \in S : TRUE
         IN Len(f[r]) + SumLen(f, S \ {r})

ReflogLines == SumLen(reflog, Refs)

\* History: the call changed (or deleted) the ref.  A receivePackUpdate that
\* deletes an absent ref returns without touching it.
Mutating(pr) ==
    /\ pr.result = "ok"
    /\ pr.op \in {"updateRef", "createRef", "deleteRef", "receivePackUpdate"}
    /\ ~(/\ pr.op = "receivePackUpdate"
         /\ pr.newOid = ZeroOid(Len(pr.newOid))
         /\ resolveRef(pr.pre, pr.refName) = Null)

Call(p, op, refName, oldArg, newOid, message, timestamp) ==
    LET c == Run(World, Frame(World, op, normalizeRefName(refName), oldArg,
                              newOid, message, timestamp))
    IN /\ ReflogLines < MaxReflogLines
       /\ loose' = c.w.loose
       /\ packed' = c.w.packed
       /\ reflog' = c.w.reflog
       /\ proc' = [proc EXCEPT ![p] = c.pr]
       /\ calls' = IF Mutating(c.pr)
                   THEN [calls EXCEPT ![c.pr.refName] =
                            Append(@, [op |-> c.pr.op, newOid |-> c.pr.newOid,
                                       message |-> c.pr.message])]
                   ELSE calls
       /\ UNCHANGED <<rebaseVars, objVars, treeVars, wireVars>>

CallResolveRef ==
    /\ proc[1].pc = "idle"
    /\ \E refName \in RefInputs :
           Call(1, "resolveRef", refName, <<>>, <<>>, "", 0)

CallUpdateRef ==
    /\ proc[1].pc = "idle"
    /\ \E refName \in RefInputs, oid \in OidInputs,
          message \in MessageInputs("updateRef"), timestamp \in Timestamps :
           Call(1, "updateRef", refName, <<>>, oid, message, timestamp)

CallCreateRef ==
    /\ proc[1].pc = "idle"
    /\ \E refName \in RefInputs, oid \in OidInputs,
          message \in MessageInputs("createRef"), timestamp \in Timestamps :
           Call(1, "createRef", refName, <<>>, oid, message, timestamp)

CallDeleteRef ==
    /\ proc[1].pc = "idle"
    /\ \E refName \in RefInputs,
          message \in MessageInputs("deleteRef"), timestamp \in Timestamps :
           Call(1, "deleteRef", refName, <<>>, <<>>, message, timestamp)

CallReceivePackUpdate ==
    /\ proc[1].pc = "idle"
    /\ \E refName \in RefInputs, oldOid \in OidInputs, newOid \in OidInputs,
          message \in MessageInputs("receivePackUpdate"),
          timestamp \in Timestamps :
           Call(1, "receivePackUpdate", refName, oldOid, newOid, message, timestamp)

CallListRefs ==
    /\ proc[1].pc = "idle"
    /\ \E refPrefix \in PrefixInputs, collation \in Collations :
           LET c == Run(World, [Frame(World, "listRefs", <<>>, <<>>, <<>>, "", 0)
                                   EXCEPT !.prefix = refPrefix,
                                          !.collation = collation])
           IN /\ proc' = [proc EXCEPT ![1] = c.pr]
              /\ UNCHANGED <<loose, packed, reflog, calls>>
              /\ UNCHANGED <<rebaseVars, objVars, treeVars, wireVars>>

\* The caller takes the result; its next call starts from a fresh frame.
Finish ==
    /\ proc[1].pc = "done"
    /\ proc' = [proc EXCEPT ![1] = IdleFrame]
    /\ UNCHANGED <<loose, packed, reflog, calls>>
    /\ UNCHANGED <<rebaseVars, objVars, treeVars, wireVars>>

\* ------------------------------------------------------------------------
\* Rebase state (unnamed/part_002) and its persistence (index.ts 1159-1182,
\* 1823-1854).
\* ------------------------------------------------------------------------

\* The longest step list the model starts a rebase with.
MaxRebaseSteps == 2

StepIds == {"c1", "c2"}

StepLists == UNION {[1..n -> StepIds] : n \in 0..MaxRebaseSteps}

startRebaseState(originalHead, onto, steps) ==
    [originalHead |-> originalHead, onto |-> onto, steps |-> steps,
     currentIndex |-> 0, status |-> "active"]

\* Mutant: the guard on the status is missing.
continueRebaseState_NoGuard(state) ==
    LET nextIndex == state.currentIndex + 1
        completed == nextIndex >= Len(state.steps)
    IN [state EXCEPT !.currentIndex = nextIndex,
                     !.status = IF completed THEN "completed" ELSE "active"]

continueRebaseState(state) ==
    IF state.status # "active"
    THEN state
    ELSE LET nextIndex == state.currentIndex + 1
             completed == nextIndex >= Len(state.steps)
         IN [state EXCEPT !.currentIndex = nextIndex,
                          !.status = IF completed THEN "completed" ELSE "active"]

abortRebaseState(state) == [state EXCEPT !.status = "aborted"]

\* JSON.stringify(state, null, 2): the members in insertion order.
StringifyRebaseState(state) ==
    << <<"originalHead", state.originalHead>>, <<"onto", state.onto>>,
       <<"steps", state.steps>>, <<"currentIndex", state.currentIndex>>,
       <<"status", state.status>> >>

Member(json, key) ==
    json[CHOOSE i \in 1..Len(json) : json[i][1] = key][2]

\* JSON.parse(text) as RebaseState
ParseRebaseState(json) ==
    [originalHead |-> Member(json, "originalHead"), onto |-> Member(json, "onto"),
     steps |-> Member(json, "steps"),
     currentIndex |-> Member(json, "currentIndex"),
     status |-> Member(json, "status")]

NoRebaseFile == [exists |-> FALSE, json |-> <<>>]

writeRebaseState(state) == [exists |-> TRUE, json |-> StringifyRebaseState(state)]

NoRebaseState == startRebaseState(<<>>, <<>>, <<>>)

NoRebaseCall ==
    [op |-> "none", pre |-> NoRebaseFile, result |-> "", state |-> NoRebaseState]

RebaseCall(op, result, state) ==
    [op |-> op, pre |-> rebaseFile, result |-> result, state |-> state]

rebaseStart ==
    \E originalHead \in {OidA40}, onto \in {OidA40, OidB40}, steps \in StepLists :
        LET state == startRebaseState(originalHead, onto, steps)
        IN /\ rebaseFile' = writeRebaseState(state)
           /\ lastRebase' = RebaseCall("rebaseStart", "ok", state)
           /\ UNCHANGED <<refVars, objVars, treeVars, wireVars>>

rebaseContinue ==
    /\ IF ~rebaseFile.exists
       THEN /\ lastRebase' = RebaseCall("rebaseContinue", "NOT_FOUND", NoRebaseState)
            /\ UNCHANGED rebaseFile
       ELSE LET next == continueRebaseState(ParseRebaseState(rebaseFile.json))
            IN /\ rebaseFile' = writeRebaseState(next)
               /\ lastRebase' = RebaseCall("rebaseContinue", "ok", next)
    /\ UNCHANGED <<refVars, objVars, treeVars, wireVars>>

rebaseAbort ==
    /\ IF ~rebaseFile.exists
       THEN /\ lastRebase' = RebaseCall("rebaseAbort", "NOT_FOUND", NoRebaseState)
            /\ UNCHANGED rebaseFile
       ELSE LET aborted == abortRebaseState(ParseRebaseState(rebaseFile.json))
            IN /\ rebaseFile' = writeRebaseState(aborted)
               /\ lastRebase' = RebaseCall("rebaseAbort", "ok", aborted)
    /\ UNCHANGED <<refVars, objVars, treeVars, wireVars>>

NextRebase == rebaseStart \/ rebaseContinue \/ rebaseAbort

\* ------------------------------------------------------------------------
\* Loose objects (index.ts 1586-1667, core/index/index-v2.ts 93-141).
\* Payloads are sequences of byte values.
\* ------------------------------------------------------------------------

ObjectTypes == {"blob", "tree", "commit"}

Payloads == {<<97>>, <<98>>}

\* `${objectType} ${payload.byteLength}\0` and the payload: the header is
\* kept as its two fields.
encodeLooseObject(objectType, payload) ==
    [objectType |-> objectType, size |-> Len(payload), payload |-> payload]

\* Throws when the size of the header is not the length of the payload.
decodeLooseObject(rawObject) ==
    IF Len(rawObject.payload) # rawObject.size
    THEN [ok |-> FALSE, objectType |-> "", payload |-> <<>>]
    ELSE [ok |-> TRUE, objectType |-> rawObject.objectType,
          payload |-> rawObject.payload]

TypeDigit(objectType) ==
    CASE objectType = "blob" -> "b"
      [] objectType = "tree" -> "d"
      [] objectType = "commit" -> "c"

DigestDigits ==
    <<"0", "1", "2", "3", "4", "5", "6", "7", "8", "9",
      "a", "b", "c", "d", "e", "f">>

\* The sum of the bytes at the positions k, k + step, k + 2 * step, ...
RECURSIVE FoldBytes(_, _, _)
FoldBytes(payload, k, step) ==
    IF k > Len(payload) THEN 0
    ELSE payload[k] + FoldBytes(payload, k + step, step)

\* The hex digest of the header and the payload.  The digest is taken to be
\* free of collisions on the payloads of the model: it spells the type, and
\* each further digit folds the bytes of one residue class of positions.
hashGitObject(objectType, payload) ==
    [i \in 1..Sha1HexLen |->
        IF i = 1 THEN TypeDigit(objectType)
        ELSE DigestDigits[(FoldBytes(payload, i - 1, Sha1HexLen - 1) % 16) + 1]]

\* this.compression.deflateRaw / inflateRaw
deflateRaw(bytes) == [deflated |-> bytes]

inflateRaw(compressed) == compressed.deflated

OidBlobA == hashGitObject("blob", <<97>>)

\* An oid no object of the model hashes to.
OidFake == OidA40

\* The oids setPromisorObject is called with.
PromisorOidInputs == {OidBlobA, OidFake, OidUpper}

ObjectOids ==
    {hashGitObject(objectType, payload) :
        objectType \in ObjectTypes, payload \in Payloads} \cup {OidFake}

NoObject == [exists |-> FALSE, bytes |-> deflateRaw(encodeLooseObject("", <<>>))]

ObjectFile(bytes) == [exists |-> TRUE, bytes |-> bytes]

\* Mutant: an object that exists is written again.
writeIfAbsent_Overwrite(objs, oid, compressed) ==
    [objs EXCEPT ![oid] = ObjectFile(compressed)]

\* exists = await pathExists(fs, objectPath);
\* if (!exists) await fs.writeFile(objectPath, compressed)
writeIfAbsent(objs, oid, compressed) ==
    IF oid \notin DOMAIN objs THEN objs @@ (oid :> ObjectFile(compressed))
    ELSE IF objs[oid].exists THEN objs
    ELSE [objs EXCEPT ![oid] = ObjectFile(compressed)]

writeLooseObject(objs, objectType, payload) ==
    LET oid == hashGitObject(objectType, payload)
    IN [objects |-> writeIfAbsent(objs, oid,
                        deflateRaw(encodeLooseObject(objectType, payload))),
        oid |-> oid]

\* Mutant: nothing is written.
writeLooseBlobAtOid_Nothing(objs, oid, payload) == objs

writeLooseBlobAtOid(objs, oid, payload) ==
    writeIfAbsent(objs, oid, deflateRaw(encodeLooseObject("blob", payload)))

readObject(objs, oid) ==
    IF ~isObjectId(oid)
    THEN [result |-> "INVALID_ARGUMENT", payload |-> <<>>]
    ELSE IF oid \notin DOMAIN objs \/ ~objs[oid].exists
    THEN [result |-> "ENOENT", payload |-> <<>>]
    ELSE LET decoded == decodeLooseObject(inflateRaw(objs[oid].bytes))
         IN IF decoded.ok
            THEN [result |-> "ok", payload |-> decoded.payload]
            ELSE [result |-> "Error", payload |-> <<>>]

\* ------------------------------------------------------------------------
\* Worktree paths (unnamed/part_006).  A path is the sequence of its
\* characters; "NUL" stands for the character of code 0.
\* ------------------------------------------------------------------------

PathA == <<"a">>
PathB == <<"B">>
PathWin == <<"d", "\\", "a">>
PathMissing == <<"c">>
PathUnsafe == <<"/", "a">>

\* The files of the worktree.
Worktree == {<<PathA, <<97>>>>, <<PathB, <<98>>>>, <<PathWin, <<97>>>>}

Letters == {"a", "b", "c", "d", "e", "f", "A", "B", "C", "D", "E", "F"}

\* /^[A-Za-z]:[\\/]/
hasWindowsDrivePrefix(pathValue) ==
    /\ Len(pathValue) >= 3
    /\ pathValue[1] \in Letters
    /\ pathValue[2] = ":"
    /\ pathValue[3] \in {"\\", "/"}

\* replaceAll("\\", "/")
replaceBackslashes(s) == [i \in 1..Len(s) |-> IF s[i] = "\\" THEN "/" ELSE s[i]]

RECURSIVE stripLeadingSlashes(_)
stripLeadingSlashes(s) ==
    IF Len(s) > 0 /\ s[1] = "/" THEN stripLeadingSlashes(Tail(s)) ELSE s

RECURSIVE stripTrailingSlashes(_)
stripTrailingSlashes(s) ==
    IF Len(s) > 0 /\ s[Len(s)] = "/"
    THEN stripTrailingSlashes(SubSeq(s, 1, Len(s) - 1))
    ELSE s

\* s.split("/")
RECURSIVE split(_)
split(s) ==
    IF \A i \in 1..Len(s) : s[i] # "/" THEN <<s>>
    ELSE LET k == CHOOSE i \in 1..Len(s) :
                      s[i] = "/" /\ \A j \in 1..(i - 1) : s[j] # "/"
         IN <<SubSeq(s, 1, k - 1)>> \o split(SubSeq(s, k + 1, Len(s)))

\* Mutant: every path is taken to be safe.
isSafeWorktreePath_Always(pathValue) == TRUE

isSafeWorktreePath(pathValue) ==
    /\ Len(pathValue) > 0
    /\ \A i \in 1..Len(pathValue) : pathValue[i] # "NUL"
    /\ pathValue[1] # "/"
    /\ pathValue[1] # "\\"
    /\ ~hasWindowsDrivePrefix(pathValue)
    /\ LET segments == split(replaceBackslashes(pathValue))
       IN \A i \in 1..Len(segments) :
              /\ segments[i] # <<>>
              /\ segments[i] # <<".">>
              /\ segments[i] # <<".", ".">>

\* ------------------------------------------------------------------------
\* The index file (index.ts 1094-1112, unnamed/part_000 93-128) and add
\* (index.ts 1674-1704).
\* ------------------------------------------------------------------------

RegularFileMode == 33188

\* "DIRC", version 2: the eight bytes an index file starts with
INDEX_HEADER == <<68, 73, 82, 67, 0, 0, 0, 2>>

NoIndexFile == [exists |-> FALSE, header |-> <<>>, entries |-> <<>>]

\* The index file that holds the bytes given, which spell no entries.
RawIndexFile(bytes) ==
    [exists |-> TRUE,
     header |-> SubSeq(bytes, 1, IF Len(bytes) < Len(INDEX_HEADER) THEN Len(bytes)
                                 ELSE Len(INDEX_HEADER)),
     entries |-> <<>>]

\* decodeIndexV2 throws "index header mismatch" when this is false.
indexHeaderMatches(file) == ~file.exists \/ file.header = INDEX_HEADER

\* entries.sort((a, b) => a.path.localeCompare(b.path)), for entries of
\* distinct paths.
sortEntries(entries, collation) ==
    LET paths == sortByLocaleCompare(MapKeys(entries), collation)
    IN [i \in 1..Len(paths) |-> MapGet(entries, paths[i])]

EntriesByPath(entries) == {<<entries[i].path, entries[i]>> : i \in 1..Len(entries)}

encodeIndexV2(entriesByPath, collation) ==
    [exists |-> TRUE, header |-> INDEX_HEADER,
     entries |-> sortEntries(entriesByPath, collation)]

decodeIndexV2(file, collation) ==
    sortEntries(EntriesByPath(file.entries), collation)

readIndexV2(file, collation) ==
    IF ~file.exists THEN <<>> ELSE decodeIndexV2(file, collation)

MapSet(map, key, value) ==
    {entry \in map : entry[1] # key} \cup {<<key, value>>}

MapDelete_Keep(map, key) == map

MapDelete(map, key) == {entry \in map : entry[1] # key}

MapHas(map, key) == \E entry \in map : entry[1] = key

\* The loop of add over its paths, in the worktree of the files given.
RECURSIVE addLoopIn(_, _, _, _, _)
addLoopIn(files, objs, byPath, paths, i) ==
    IF i > Len(paths) THEN [result |-> "ok", objects |-> objs, byPath |-> byPath]
    ELSE IF ~isSafeWorktreePath(paths[i])
    THEN [result |-> "Error", objects |-> objs, byPath |-> byPath]
    ELSE IF ~MapHas(files, paths[i])
    THEN [result |-> "ENOENT", objects |-> objs, byPath |-> byPath]
    ELSE LET written == writeLooseObject(objs, "blob", MapGet(files, paths[i]))
         IN addLoopIn(files, written.objects,
                      MapSet(byPath, paths[i],
                             [path |-> paths[i], oid |-> written.oid,
                              mode |-> RegularFileMode]),
                      paths, i + 1)

\* ------------------------------------------------------------------------
\* Sparse-checkout rules (core/sparse-checkout/rules.ts) and their state
\* file (index.ts 1184-1278, 1975-2000).  A rule is the sequence of its
\* characters.
\* ------------------------------------------------------------------------

RuleDot == <<".">>

\* What normalizeRule gives for a rule it throws on.
RuleError == <<>>

normalizeRule(rule) ==
    LET trimmed == replaceBackslashes(trim(rule))
        normalized == stripTrailingSlashes(stripLeadingSlashes(trimmed))
    IN IF Len(trimmed) = 0 THEN RuleError
       ELSE IF trimmed = RuleDot THEN RuleDot
       ELSE IF ~isSafeWorktreePath(normalized) THEN RuleError
       ELSE normalized

\* Throws when a rule is empty or unsafe.
normalizeSparseRules(rules, collation) ==
    LET out == {normalizeRule(rules[i]) : i \in 1..Len(rules)}
    IN IF RuleError \in out
       THEN [ok |-> FALSE, rules |-> <<>>]
       ELSE [ok |-> TRUE, rules |-> sortByLocaleCompare(out, collation)]

startsWithText(s, prefix) ==
    Len(prefix) <= Len(s) /\ SubSeq(s, 1, Len(prefix)) = prefix

\* pathValue.replaceAll("\\", "/").replace(/^\/+/, "")
normalizePath(pathValue) == stripLeadingSlashes(replaceBackslashes(pathValue))

\* Mutant: a rule matches the paths it is a prefix of, character by character.
matchesCone_Characters(pathValue, coneRules) ==
    \E r \in 1..Len(coneRules) :
        \/ coneRules[r] = RuleDot
        \/ startsWithText(normalizePath(pathValue), coneRules[r])

matchesCone(pathValue, coneRules) ==
    LET candidate == split(normalizePath(pathValue))
    IN \E r \in 1..Len(coneRules) :
           \/ coneRules[r] = RuleDot
           \/ LET ruleSegments == split(coneRules[r])
              IN /\ Len(ruleSegments) <= Len(candidate)
                 /\ SubSeq(candidate, 1, Len(ruleSegments)) = ruleSegments

\* toPatternRegex(pattern).test(pathValue): "**" is ".*", "*" is "[^/]*",
\* "?" is "[^/]", any other character stands for itself.
RECURSIVE globMatches(_, _)
globMatches(pattern, pathValue) ==
    IF pattern = <<>> THEN pathValue = <<>>
    ELSE IF Len(pattern) >= 2 /\ pattern[1] = "*" /\ pattern[2] = "*"
    THEN \E k \in 0..Len(pathValue) :
             globMatches(SubSeq(pattern, 3, Len(pattern)),
                         SubSeq(pathValue, k + 1, Len(pathValue)))
    ELSE IF pattern[1] = "*"
    THEN \E k \in 0..Len(pathValue) :
             /\ \A i \in 1..k : pathValue[i] # "/"
             /\ globMatches(Tail(pattern), SubSeq(pathValue, k + 1, Len(pathValue)))
    ELSE IF pattern[1] = "?"
    THEN /\ Len(pathValue) > 0
         /\ pathValue[1] # "/"
         /\ globMatches(Tail(pattern), Tail(pathValue))
    ELSE /\ Len(pathValue) > 0
         /\ pathValue[1] = pattern[1]
         /\ globMatches(Tail(pattern), Tail(pathValue))

matchesPattern(pathValue, rules) ==
    \E r \in 1..Len(rules) : globMatches(rules[r], pathValue)

\* Throws when a rule or a path is unsafe.
selectSparsePaths(paths, mode, rules, collation) ==
    LET normalizedRules == normalizeSparseRules(rules, collation)
        candidates == {normalizePath(paths[i]) : i \in 1..Len(paths)}
    IN IF ~normalizedRules.ok \/ \E p \in candidates : ~isSafeWorktreePath(p)
       THEN [ok |-> FALSE, selected |-> <<>>]
       ELSE [ok |-> TRUE,
             selected |->
                 sortByLocaleCompare(
                     {p \in candidates :
                         IF mode = "cone"
                         THEN matchesCone(p, normalizedRules.rules)
                         ELSE matchesPattern(p, normalizedRules.rules)},
                     collation)]

NoSparseFile == [exists |-> FALSE, mode |-> "", rules |-> <<>>]

\* The pairs (mode, rules) setSparseCheckout is called with.
SparseInputs ==
    {[mode |-> "cone", rules |-> <<RuleDot>>],
     [mode |-> "cone", rules |-> << <<"d">> >>],
     [mode |-> "pattern", rules |-> <<PathA>>],
     [mode |-> "pattern", rules |-> <<>>]}

\* The state file and info/sparse-checkout hold the same rules.
writeSparseCheckoutState(mode, rules) ==
    [exists |-> TRUE, mode |-> mode, rules |-> rules]

readSparseCheckoutState(file, collation) ==
    [mode |-> file.mode, rules |-> normalizeSparseRules(file.rules, collation).rules]

\* ------------------------------------------------------------------------
\* The partial-clone state file (index.ts 1279-1314, unnamed/part_004) and
\* the promisor table it holds, a map from oid to payload.
\* ------------------------------------------------------------------------

NoPartialCloneFile == [exists |-> FALSE, promisorObjects |-> {}]

\* The payloads setPromisorObject is called with.
PromisorPayloads == {<<>>, <<97>>, <<98>>}

isValidPromisedPayload(payload) ==
    \A i \in 1..Len(payload) : payload[i] \in 0..255

\* Throws INTEGRITY_ERROR when a payload of the file is not a byte array.
readPartialCloneState(file) ==
    IF ~file.exists
    THEN [ok |-> TRUE, promisorObjects |-> {}]
    ELSE IF \E entry \in file.promisorObjects : ~isValidPromisedPayload(entry[2])
    THEN [ok |-> FALSE, promisorObjects |-> {}]
    ELSE [ok |-> TRUE, promisorObjects |-> file.promisorObjects]

writePartialCloneState(promisorObjects) ==
    [exists |-> TRUE, promisorObjects |-> promisorObjects]

\* ------------------------------------------------------------------------
\* The repository of objects, promisor table, index and sparse rules, and
\* the operations on it as functions from the repository to the repository
\* and the result of the call.
\* ------------------------------------------------------------------------

Store(o, p, i, s) ==
    [objects |-> o, partialClone |-> p, indexFile |-> i, sparseFile |-> s]

EmptyStore ==
    Store([oid \in ObjectOids |-> NoObject], NoPartialCloneFile, NoIndexFile,
          NoSparseFile)

NoBackfillOptions == [hasMinBatchSize |-> FALSE, minBatchSize |-> 0, sparse |-> FALSE]

\* What a call returns, with its arguments; pre is the repository when the
\* call was made.
NoObjCall ==
    [op |-> "none", result |-> "", collation |-> "", objectType |-> "",
     payload |-> <<>>, oid |-> <<>>, paths |-> <<>>, mode |-> "",
     rules |-> <<>>, options |-> NoBackfillOptions, status |-> "",
     requestedOids |-> <<>>, fetchedOids |-> <<>>,
     remainingPromisorOids |-> <<>>, pre |-> EmptyStore]

Outcome(st, ret) == [st |-> st, ret |-> ret]

\* writeBlob, writeTree, writeCommit
writeObject(st, op, objectType, payload) ==
    LET written == writeLooseObject(st.objects, objectType, payload)
    IN Outcome([st EXCEPT !.objects = written.objects],
               [NoObjCall EXCEPT !.op = op, !.result = "ok",
                                 !.objectType = objectType,
                                 !.payload = payload, !.oid = written.oid,
                                 !.pre = st])

readObjectCall(st, oid) ==
    LET read == readObject(st.objects, oid)
    IN Outcome(st, [NoObjCall EXCEPT !.op = "readObject", !.result = read.result,
                                     !.oid = oid, !.payload = read.payload,
                                     !.pre = st])

\* Mutant: the index is written with the paths staged before the failure.
addIn_StageProcessed(files, st, paths, collation) ==
    LET index == readIndexV2(st.indexFile, collation)
        loop == addLoopIn(files, st.objects, EntriesByPath(index), paths, 1)
    IN Outcome([st EXCEPT !.objects = loop.objects,
                          !.indexFile = encodeIndexV2(loop.byPath, collation)],
               [NoObjCall EXCEPT !.op = "add", !.result = loop.result,
                                 !.paths = paths, !.collation = collation,
                                 !.pre = st])

addIn(files, st, paths, collation) ==
    LET index == readIndexV2(st.indexFile, collation)
        loop == addLoopIn(files, st.objects, EntriesByPath(index), paths, 1)
        ret == [NoObjCall EXCEPT !.op = "add", !.result = loop.result,
                                 !.paths = paths, !.collation = collation,
                                 !.pre = st]
    IN IF ~indexHeaderMatches(st.indexFile)
       THEN Outcome(st, [ret EXCEPT !.result = "Error"])
       ELSE IF loop.result # "ok"
       THEN Outcome([st EXCEPT !.objects = loop.objects], ret)
       ELSE Outcome([st EXCEPT !.objects = loop.objects,
                               !.indexFile = encodeIndexV2(loop.byPath, collation)],
                    ret)

add(st, paths, collation) == addIn(Worktree, st, paths, collation)

setSparseCheckout(st, mode, rules, collation) ==
    LET normalizedRules == normalizeSparseRules(rules, collation)
        ret == [NoObjCall EXCEPT !.op = "setSparseCheckout", !.mode = mode,
                                 !.rules = rules, !.collation = collation,
                                 !.pre = st]
    IN IF mode \notin {"cone", "pattern"}
       THEN Outcome(st, [ret EXCEPT !.result = "INVALID_ARGUMENT"])
       ELSE IF ~normalizedRules.ok
       THEN Outcome(st, [ret EXCEPT !.result = "Error"])
       ELSE IF Len(normalizedRules.rules) = 0
       THEN Outcome(st, [ret EXCEPT !.result = "INVALID_ARGUMENT"])
       ELSE Outcome([st EXCEPT !.sparseFile =
                        writeSparseCheckoutState(mode, normalizedRules.rules)],
                    [ret EXCEPT !.result = "ok"])

setPromisorObject(st, oid, payload) ==
    LET state == readPartialCloneState(st.partialClone)
        ret == [NoObjCall EXCEPT !.op = "setPromisorObject", !.oid = oid,
                                 !.payload = payload, !.pre = st]
    IN IF ~isObjectId(oid)
       THEN Outcome(st, [ret EXCEPT !.result = "INVALID_ARGUMENT"])
       ELSE IF ~state.ok
       THEN Outcome(st, [ret EXCEPT !.result = "INTEGRITY_ERROR"])
       ELSE Outcome([st EXCEPT !.partialClone =
                        writePartialCloneState(
                            MapSet(state.promisorObjects, toLowerCase(oid),
                                   payload))],
                    [ret EXCEPT !.result = "ok"])

\* Returns the promisor payload of the oid when the table has one, else the
\* payload of the object; a promisor payload of no bytes is "malformed".
resolvePromisedObject(st, oid) ==
    LET normalizedOid == toLowerCase(oid)
        state == readPartialCloneState(st.partialClone)
        hydrated == readObject(st.objects, normalizedOid)
        ret == [NoObjCall EXCEPT !.op = "resolvePromisedObject", !.oid = oid,
                                 !.pre = st]
    IN IF ~isObjectId(oid)
       THEN Outcome(st, [ret EXCEPT !.result = "INVALID_ARGUMENT"])
       ELSE IF ~state.ok
       THEN Outcome(st, [ret EXCEPT !.result = "INTEGRITY_ERROR"])
       ELSE IF ~MapHas(state.promisorObjects, normalizedOid)
       THEN IF hydrated.result = "ok"
            THEN Outcome(st, [ret EXCEPT !.result = "ok",
                                         !.payload = hydrated.payload])
            ELSE Outcome(st, [ret EXCEPT !.result = "INTEGRITY_ERROR"])
       ELSE LET promised == MapGet(state.promisorObjects, normalizedOid)
            IN IF Len(promised) = 0 \/ ~isValidPromisedPayload(promised)
               THEN Outcome(st, [ret EXCEPT !.result = "INTEGRITY_ERROR"])
               ELSE Outcome(st, [ret EXCEPT !.result = "ok",
                                            !.payload = promised])

\* ------------------------------------------------------------------------
\* backfill (index.ts 2073-2160, core/backfill/backfill.ts).
\* ------------------------------------------------------------------------

\* The options backfill is called with: minBatchSize absent, 2, 0 and -1.
BackfillInputs ==
    {[hasMinBatchSize |-> FALSE, minBatchSize |-> 0, sparse |-> FALSE],
     [hasMinBatchSize |-> FALSE, minBatchSize |-> 0, sparse |-> TRUE],
     [hasMinBatchSize |-> TRUE, minBatchSize |-> 2, sparse |-> FALSE],
     [hasMinBatchSize |-> TRUE, minBatchSize |-> 2, sparse |-> TRUE],
     [hasMinBatchSize |-> TRUE, minBatchSize |-> 0, sparse |-> FALSE],
     [hasMinBatchSize |-> TRUE, minBatchSize |-> -1, sparse |-> FALSE]}

DefaultMinBatchSize == 1

\* minBatchSize = options.minBatchSize ?? 1; sparse = options.sparse === true
normalizeBackfillOptions(options) ==
    LET minBatchSize == IF options.hasMinBatchSize
                        THEN options.minBatchSize
                        ELSE DefaultMinBatchSize
    IN [ok |-> minBatchSize >= 0, minBatchSize |-> minBatchSize,
        sparse |-> options.sparse]

\* The promisor entries whose lower-cased key is an object id.
promisedByOid(promisorObjects) ==
    {<<toLowerCase(entry[1]), entry[2]>> :
        entry \in {e \in promisorObjects : isObjectId(toLowerCase(e[1]))}}

\* The oids of the index entries whose path is among the selected paths.
sparseOids(entries, selected) ==
    {toLowerCase(entries[i].oid) :
        i \in {j \in 1..Len(entries) :
                  \E k \in 1..Len(selected) : selected[k] = entries[j].path}}

\* Mutant: the batch is never too small.
belowMinBatchSize_Never(requestedOids, minBatchSize) == FALSE

\* requestedOids.length < normalized.minBatchSize
belowMinBatchSize(requestedOids, minBatchSize) == Len(requestedOids) < minBatchSize

\* The loop of backfill over the requested oids.
RECURSIVE backfillLoop(_, _, _, _, _)
backfillLoop(objs, promised, promisorObjects, requestedOids, i) ==
    IF i > Len(requestedOids)
    THEN [result |-> "ok", objects |-> objs, promisorObjects |-> promisorObjects]
    ELSE LET oid == requestedOids[i]
             payload == MapGet(promised, oid)
         IN IF Len(payload) = 0 \/ ~isValidPromisedPayload(payload)
            THEN [result |-> "INTEGRITY_ERROR", objects |-> objs,
                  promisorObjects |-> promisorObjects]
            ELSE backfillLoop(writeLooseBlobAtOid(objs, oid, payload), promised,
                              MapDelete(promisorObjects, oid), requestedOids,
                              i + 1)

backfill(st, options, collation) ==
    LET normalized == normalizeBackfillOptions(options)
        state == readPartialCloneState(st.partialClone)
        promised == promisedByOid(state.promisorObjects)
        candidates == sortByLocaleCompare(MapKeys(promised), collation)
        scoped == normalized.sparse /\ st.sparseFile.exists
        sparseState == readSparseCheckoutState(st.sparseFile, collation)
        index == readIndexV2(st.indexFile, collation)
        selection == selectSparsePaths([i \in 1..Len(index) |-> index[i].path],
                                       sparseState.mode, sparseState.rules,
                                       collation)
        wanted == sparseOids(index, selection.selected)
        requestedOids == IF scoped
                         THEN SelectSeq(candidates, LAMBDA oid : oid \in wanted)
                         ELSE candidates
        loop == backfillLoop(st.objects, promised, state.promisorObjects,
                             requestedOids, 1)
        ret == [NoObjCall EXCEPT !.op = "backfill", !.options = options,
                                 !.collation = collation, !.pre = st]
    IN IF ~normalized.ok
       THEN Outcome(st, [ret EXCEPT !.result = "INVALID_ARGUMENT"])
       ELSE IF ~state.ok
       THEN Outcome(st, [ret EXCEPT !.result = "INTEGRITY_ERROR"])
       ELSE IF scoped /\ (~indexHeaderMatches(st.indexFile) \/ ~selection.ok)
       THEN Outcome(st, [ret EXCEPT !.result = "Error"])
       ELSE IF belowMinBatchSize(requestedOids, normalized.minBatchSize)
       THEN Outcome(st, [ret EXCEPT !.result = "ok",
                                    !.status = "skipped-min-batch-size",
                                    !.requestedOids = requestedOids,
                                    !.remainingPromisorOids = candidates])
       ELSE IF loop.result # "ok"
       THEN Outcome([st EXCEPT !.objects = loop.objects],
                    [ret EXCEPT !.result = loop.result])
       ELSE Outcome([st EXCEPT !.objects = loop.objects,
                               !.partialClone =
                                   writePartialCloneState(loop.promisorObjects)],
                    [ret EXCEPT !.result = "ok", !.status = "completed",
                                !.requestedOids = requestedOids,
                                !.fetchedOids = requestedOids,
                                !.remainingPromisorOids =
                                    sortByLocaleCompare(
                                        MapKeys(promisedByOid(loop.promisorObjects)),
                                        collation)])

\* ------------------------------------------------------------------------
\* The serialized API of the object store: one call at a time.
\* ------------------------------------------------------------------------

\* The most calls the model lets a session make on the object store.
MaxObjCalls == 3

ObjWorld == Store(objects, partialClone, indexFile, sparseFile)

\* The paths add is called with.
AddInputs ==
    {<<PathA>>, <<PathB>>, <<PathWin>>, <<PathA, PathB>>, <<PathB, PathMissing>>,
     <<PathUnsafe>>}

\* Repositories the calls below have produced before the session starts.
StoresAfterAdd ==
    {EmptyStore} \cup
    {add(EmptyStore, paths, "codeunit").st : paths \in {<<PathA, PathB>>, <<PathWin>>}}

InitStores ==
    StoresAfterAdd \cup
    {setSparseCheckout(st, "cone", <<RuleDot>>, "codeunit").st : st \in StoresAfterAdd}
    \cup
    {setSparseCheckout(st, "pattern", <<PathA>>, "codeunit").st : st \in StoresAfterAdd}

ObjCall(outcome) ==
    /\ lastObj.op = "none"
    /\ objCalls < MaxObjCalls
    /\ objects' = outcome.st.objects
    /\ partialClone' = outcome.st.partialClone
    /\ indexFile' = outcome.st.indexFile
    /\ sparseFile' = outcome.st.sparseFile
    /\ lastObj' = outcome.ret
    /\ objCalls' = objCalls + 1
    /\ UNCHANGED <<refVars, rebaseVars, treeVars, wireVars>>

WriteBlob ==
    \E payload \in Payloads : ObjCall(writeObject(ObjWorld, "writeBlob", "blob", payload))

WriteTree ==
    \E payload \in Payloads : ObjCall(writeObject(ObjWorld, "writeTree", "tree", payload))

WriteCommit ==
    \E payload \in Payloads :
        ObjCall(writeObject(ObjWorld, "writeCommit", "commit", payload))

ReadObject ==
    \E oid \in {OidBlobA, OidFake} : ObjCall(readObjectCall(ObjWorld, oid))

Add ==
    \E paths \in AddInputs, collation \in Collations :
        ObjCall(add(ObjWorld, paths, collation))

SetSparseCheckout ==
    \E input \in SparseInputs, collation \in Collations :
        ObjCall(setSparseCheckout(ObjWorld, input.mode, input.rules, collation))

SetPromisorObject ==
    \E oid \in PromisorOidInputs, payload \in PromisorPayloads :
        ObjCall(setPromisorObject(ObjWorld, oid, payload))

ResolvePromisedObject ==
    \E oid \in PromisorOidInputs : ObjCall(resolvePromisedObject(ObjWorld, oid))

Backfill ==
    \E options \in BackfillInputs, collation \in Collations :
        ObjCall(backfill(ObjWorld, options, collation))

\* The caller takes the result.
FinishObj ==
    /\ lastObj.op # "none"
    /\ lastObj' = NoObjCall
    /\ UNCHANGED <<objects, partialClone, indexFile, sparseFile, objCalls>>
    /\ UNCHANGED <<refVars, rebaseVars, treeVars, wireVars>>

NextObj ==
    \/ WriteBlob
    \/ WriteTree
    \/ WriteCommit
    \/ ReadObject
    \/ Add
    \/ SetSparseCheckout
    \/ SetPromisorObject
    \/ ResolvePromisedObject
    \/ Backfill
    \/ FinishObj

\* ------------------------------------------------------------------------
\* Patches (core/apply/patch.ts).  A patch text is the sequence of its
\* characters.
\* ------------------------------------------------------------------------

startsWith(s, prefix) ==
    Len(prefix) <= Len(s) /\ SubSeq(s, 1, Len(prefix)) = prefix

\* replace(/\r\n/g, "\n")
RECURSIVE replaceCrLf(_)
replaceCrLf(s) ==
    IF Len(s) < 2 THEN s
    ELSE IF s[1] = "\r" /\ s[2] = "\n"
    THEN <<"\n">> \o replaceCrLf(SubSeq(s, 3, Len(s)))
    ELSE <<s[1]>> \o replaceCrLf(Tail(s))

\* s.split(separator)
RECURSIVE splitOn(_, _)
splitOn(s, separator) ==
    IF \A i \in 1..Len(s) : s[i] # separator THEN <<s>>
    ELSE LET k == CHOOSE i \in 1..Len(s) :
                      s[i] = separator /\ \A j \in 1..(i - 1) : s[j] # separator
         IN <<SubSeq(s, 1, k - 1)>> \o splitOn(SubSeq(s, k + 1, Len(s)), separator)

\* lines.join(separator)
RECURSIVE join(_, _)
join(lines, separator) ==
    IF lines = <<>> THEN <<>>
    ELSE IF Len(lines) = 1 THEN lines[1]
    ELSE lines[1] \o <<separator>> \o join(Tail(lines), separator)

\* "+++ b/"
PlusTarget == <<"+", "+", "+", " ", "b", "/">>

NoPatch == [ok |-> FALSE, filePath |-> <<>>, addedLines |-> <<>>, removedLines |-> <<>>]

\* Throws when the text has no "+++ b/" line or names an unsafe path.
\* plusLine.slice("+++ b/".length).trim(), <<>> when no line names a target
patchTarget(patchText) ==
    LET lines == splitOn(replaceCrLf(patchText), "\n")
        plusLines == SelectSeq(lines, LAMBDA line : startsWith(line, PlusTarget))
    IN IF plusLines = <<>> THEN <<>>
       ELSE trim(SubSeq(plusLines[1], Len(PlusTarget) + 1, Len(plusLines[1])))

parseUnifiedPatch(patchText) ==
    LET lines == splitOn(replaceCrLf(patchText), "\n")
        plusLines == SelectSeq(lines, LAMBDA line : startsWith(line, PlusTarget))
        filePath == patchTarget(patchText)
        body == SelectSeq(lines, LAMBDA line :
                    /\ ~startsWith(line, <<"-", "-", "-", " ">>)
                    /\ ~startsWith(line, <<"+", "+", "+", " ">>)
                    /\ ~startsWith(line, <<"@", "@">>))
        added == SelectSeq(body, LAMBDA line : startsWith(line, <<"+">>))
        removed == SelectSeq(body, LAMBDA line : startsWith(line, <<"-">>))
    IN IF plusLines = <<>> THEN NoPatch
       ELSE IF ~isSafeWorktreePath(filePath) THEN NoPatch
       ELSE [ok |-> TRUE, filePath |-> filePath,
             addedLines |-> [i \in 1..Len(added) |-> Tail(added[i])],
             removedLines |-> [i \in 1..Len(removed) |-> Tail(removed[i])]]

applyUnifiedPatch(patchText, reverse) ==
    LET parsed == parseUnifiedPatch(patchText)
        nextLines == IF reverse THEN parsed.removedLines ELSE parsed.addedLines
    IN [ok |-> parsed.ok, filePath |-> parsed.filePath,
        nextText |-> join(nextLines, "\n")]

\* The UTF-8 code of a character of the texts of the model.
\* The characters of the codes 32 to 126, in the order of their codes;
\* "GRAVE" stands for the character of code 96.
PrintableAscii ==
    <<" ", "!", "\"", "#", "$", "%", "&", "'", "(", ")", "*", "+", ",", "-", ".",
      "/", "0", "1", "2", "3", "4", "5", "6", "7", "8", "9", ":", ";", "<", "=",
      ">", "?", "@", "A", "B", "C", "D", "E", "F", "G", "H", "I", "J", "K", "L",
      "M", "N", "O", "P", "Q", "R", "S", "T", "U", "V", "W", "X", "Y", "Z", "[",
      "\\", "]", "^", "_", "GRAVE", "a", "b", "c", "d", "e", "f", "g", "h", "i", "j",
      "k", "l", "m", "n", "o", "p", "q", "r", "s", "t", "u", "v", "w", "x", "y",
      "z", "{", "|", "}", "~">>

CharCode(c) ==
    IF c = "\n" THEN 10
    ELSE IF c = "\r" THEN 13
    ELSE 31 + (CHOOSE i \in 1..Len(PrintableAscii) : PrintableAscii[i] = c)

\* toBytes of a string (unnamed/part_011 82-85)
toBytes(text) == [i \in 1..Len(text) |-> CharCode(text[i])]

\* ------------------------------------------------------------------------
\* The files of the worktree, by their path under the worktree root.
\* ------------------------------------------------------------------------

\* joinFsPath(worktreePath, part), under the worktree root
joinFsPath(part) == stripTrailingSlashes(stripLeadingSlashes(part))

\* The directories above a path.
Ancestors(pathValue) ==
    LET segments == split(pathValue)
    IN {join(SubSeq(segments, 1, k), "/") : k \in 1..(Len(segments) - 1)}

IsDirectory(files, pathValue) ==
    \/ pathValue = <<>>
    \/ \E entry \in files : startsWith(entry[1], pathValue \o <<"/">>)

\* The worktree, the object store and the index.  The git directory is
\* <worktree>/.git (index.ts 749, 800-802), so that the index file is the
\* file of the worktree at .git/index; files holds the files outside the
\* git directory.
Tree(files, objs, index) == [files |-> files, objects |-> objs, indexFile |-> index]

PathGitIndex == <<".", "g", "i", "t", "/", "i", "n", "d", "e", "x">>

\* JSON.stringify of a string with no control character
RECURSIVE jsonEscape(_)
jsonEscape(text) ==
    IF text = <<>> THEN <<>>
    ELSE (IF Head(text) \in {"\"", "\\"} THEN <<"\\", Head(text)>>
          ELSE <<Head(text)>>) \o jsonEscape(Tail(text))

jsonString(text) == <<"\"">> \o jsonEscape(text) \o <<"\"">>

\* JSON.stringify of a natural number
RECURSIVE jsonNumber(_)
jsonNumber(n) ==
    IF n < 10 THEN <<DigestDigits[n + 1]>>
    ELSE jsonNumber(n \div 10) \o <<DigestDigits[(n % 10) + 1]>>

\* JSON.stringify of an index entry {path, oid, mode}
jsonIndexEntry(entry) ==
    <<"{", "\"", "p", "a", "t", "h", "\"", ":">> \o jsonString(entry.path)
    \o <<",", "\"", "o", "i", "d", "\"", ":">> \o jsonString(entry.oid)
    \o <<",", "\"", "m", "o", "d", "e", "\"", ":">> \o jsonNumber(entry.mode) \o <<"}">>

\* The bytes of the index file (unnamed/part_000 93-103): the header, then
\* JSON.stringify({version: 2, entries}).  Of a file written as a file of
\* the worktree the model keeps the first bytes only.
IndexBytes(file) ==
    IF file.header # INDEX_HEADER THEN file.header
    ELSE INDEX_HEADER
         \o toBytes(<<"{", "\"", "v", "e", "r", "s", "i", "o", "n", "\"", ":", "2", ",", "\"", "e", "n", "t", "r", "i", "e", "s", "\"", ":", "[">>
                    \o join([i \in 1..Len(file.entries) |->
                                jsonIndexEntry(file.entries[i])], ",")
                    \o <<"]", "}">>)

\* The files fs.readFile finds under the worktree root.
FilesOf(tree) ==
    IF tree.indexFile.exists
    THEN tree.files \cup {<<PathGitIndex, IndexBytes(tree.indexFile)>>}
    ELSE tree.files

\* Mutant: nothing is written.
writeWorktreeFile_Nothing(tree, relPath, bytes) == [ok |-> TRUE, tree |-> tree]

\* fs.mkdir(parentFsPath(absolutePath), {recursive: true}) and
\* fs.writeFile(absolutePath, bytes): mkdir fails when a file is in the
\* way, writeFile when the path is a directory.
writeWorktreeFile(tree, relPath, bytes) ==
    LET absolutePath == joinFsPath(relPath)
    IN IF absolutePath = PathGitIndex
       THEN [ok |-> TRUE, tree |-> [tree EXCEPT !.indexFile = RawIndexFile(bytes)]]
       ELSE IF \E dir \in Ancestors(absolutePath) : MapHas(tree.files, dir)
       THEN [ok |-> FALSE, tree |-> tree]
       ELSE IF IsDirectory(tree.files, absolutePath)
       THEN [ok |-> FALSE, tree |-> tree]
       ELSE [ok |-> TRUE,
             tree |-> [tree EXCEPT !.files = MapSet(@, absolutePath, bytes)]]

StoreOf(tree) ==
    Store(tree.objects, NoPartialCloneFile, tree.indexFile, NoSparseFile)

\* add(paths) in the tree
stagedTree(tree, staged) ==
    [result |-> staged.ret.result,
     tree |-> Tree(tree.files, staged.st.objects, staged.st.indexFile)]

addInTree(tree, paths, collation) ==
    stagedTree(tree, addIn(FilesOf(tree), StoreOf(tree), paths, collation))

\* applyPatch once add has returned (index.ts 2649)
applyPatchStaged(applied, staged) ==
    [ok |-> staged.result = "ok", appliedPath |-> applied.filePath,
     tree |-> staged.tree]

\* applyPatch once the file is written (index.ts 2648-2649)
applyPatchWritten(tree, applied, written, updateIndex, collation) ==
    IF ~written.ok THEN [ok |-> FALSE, appliedPath |-> <<>>, tree |-> tree]
    ELSE IF ~updateIndex
    THEN [ok |-> TRUE, appliedPath |-> applied.filePath, tree |-> written.tree]
    ELSE applyPatchStaged(applied,
                          addInTree(written.tree, <<applied.filePath>>, collation))

\* applyPatch once the patch is parsed (index.ts 2643-2649)
applyPatchParsed(tree, applied, updateIndex, collation) ==
    IF ~applied.ok THEN [ok |-> FALSE, appliedPath |-> <<>>, tree |-> tree]
    ELSE applyPatchWritten(tree, applied,
                           writeWorktreeFile(tree, applied.filePath,
                                             toBytes(applied.nextText)),
                           updateIndex, collation)

applyPatch(tree, patchText, reverse, updateIndex, collation) ==
    applyPatchParsed(tree, applyUnifiedPatch(patchText, reverse), updateIndex,
                     collation)

\* The loop of checkout over the sorted files.
RECURSIVE checkoutLoop(_, _, _, _)
checkoutLoop(tree, payloads, relPaths, i) ==
    IF i > Len(relPaths) THEN [result |-> "ok", tree |-> tree]
    ELSE IF ~isSafeWorktreePath(relPaths[i])
    THEN [result |-> "Error", tree |-> tree]
    ELSE LET written == writeWorktreeFile(tree, relPaths[i],
                                          MapGet(payloads, relPaths[i]))
         IN IF ~written.ok THEN [result |-> "Error", tree |-> tree]
            ELSE checkoutLoop(written.tree, payloads, relPaths, i + 1)

checkout(tree, payloads, collation) ==
    checkoutLoop(tree, payloads, sortByLocaleCompare(MapKeys(payloads), collation), 1)

\* ------------------------------------------------------------------------
\* replay (index.ts 2652-2680, unnamed/part_000 1-57).
\* ------------------------------------------------------------------------

ReplayStep(patchText, reverse) == [patchText |-> patchText, reverse |-> reverse]

validateReplaySteps(steps) ==
    IF Len(steps) = 0 THEN [ok |-> FALSE, steps |-> <<>>]
    ELSE IF \E i \in 1..Len(steps) : Len(trim(steps[i].patchText)) = 0
    THEN [ok |-> FALSE, steps |-> <<>>]
    ELSE [ok |-> TRUE, steps |-> steps]

\* failedStep is <<>> for null and <<k>> for the number k.
replayCompleted(appliedPaths) ==
    [status |-> "completed", appliedPaths |-> appliedPaths, failedStep |-> <<>>]

\* Mutant: the failed step is counted from one.
replayConflict_FromOne(appliedPaths, failedStep) ==
    [status |-> "conflict", appliedPaths |-> appliedPaths,
     failedStep |-> <<failedStep + 1>>]

replayConflict(appliedPaths, failedStep) ==
    [status |-> "conflict", appliedPaths |-> appliedPaths,
     failedStep |-> <<failedStep>>]

\* ------------------------------------------------------------------------
\* Linked worktrees and submodules (core/blame/blame.ts 24-49,
\* unnamed/part_010 94-105, index.ts 1397-1478).  A state file is the list
\* of its entries.
\* ------------------------------------------------------------------------

NoStateFile == [exists |-> FALSE, entries |-> <<>>]

\* [...entries].sort((a, b) => a.path.localeCompare(b.path))
normalizeWorktrees(entries, collation) ==
    sortEntries(EntriesByPath(entries), collation)

readWorktreeEntries(file, collation) ==
    IF ~file.exists THEN <<>> ELSE normalizeWorktrees(file.entries, collation)

writeWorktreeEntries(entries) == [exists |-> TRUE, entries |-> entries]

\* upsertWorktree and upsertSubmodule
upsertWorktree(entries, next, collation) ==
    IF ~isSafeWorktreePath(next.path) THEN [ok |-> FALSE, entries |-> entries]
    ELSE [ok |-> TRUE,
          entries |-> normalizeWorktrees(
              SelectSeq(entries, LAMBDA entry : entry.path # next.path)
                  \o <<next>>, collation)]

\* Mutant: the flagged entries are the ones kept.
pruneWorktrees_KeepFlagged(entries, collation) ==
    normalizeWorktrees(SelectSeq(entries, LAMBDA entry : entry.prunable), collation)

pruneWorktrees(entries, collation) ==
    normalizeWorktrees(SelectSeq(entries, LAMBDA entry : ~entry.prunable), collation)

markPrunable(entries, pathValue) ==
    [i \in 1..Len(entries) |->
        IF entries[i].path = pathValue
        THEN [entries[i] EXCEPT !.prunable = TRUE]
        ELSE entries[i]]

\* ------------------------------------------------------------------------
\* The serialized API of the worktree: checkout, applyPatch, replay, add,
\* addSubmodule, addWorktree, markWorktreePrunable and pruneWorktrees, one
\* call at a time.  replay takes one step of the model for each of its steps.
\* ------------------------------------------------------------------------

\* The most calls the model lets a session make on the worktree.
MaxTreeCalls == 2

\* The most steps of a replay.
MaxReplaySteps == 2

PathD == <<"d">>
PathDF == <<"d", "/", "f">>
PathUp == <<".", ".", "/", "e">>
PathInnerUp == <<"b", "/", ".", ".", "/", "e">>

\* The patch generateUnifiedPatch writes for a file of one line.
PatchText(pathValue, beforeLine, afterLine) ==
    join(<< <<"-", "-", "-", " ", "a", "/">> \o pathValue,
            PlusTarget \o pathValue,
            <<"@", "@", " ", "-", "1", " ", "+", "1", " ", "@", "@">>,
            <<"-">> \o beforeLine,
            <<"+">> \o afterLine >>, "\n")

PatchCrLf == <<"+", "+", "+", " ", "b", "/", "a", "\r", "\n", "+", "a">>
PatchNoTarget == <<"+", "a">>
PatchBlank == <<" ", "\n">>

\* The patches applyPatch is called with.
ApplyPatchInputs ==
    {ReplayStep(PatchText(PathA, <<"a">>, <<"b">>), FALSE),
     ReplayStep(PatchText(PathA, <<"a">>, <<"b">>), TRUE),
     ReplayStep(PatchText(PathD, <<"b">>, <<"a">>), FALSE),
     ReplayStep(PatchText(PathUp, <<"a">>, <<"b">>), FALSE),
     ReplayStep(PatchText(PathGitIndex, <<"a">>, <<"b">>), FALSE),
     ReplayStep(PatchCrLf, FALSE), ReplayStep(PatchNoTarget, FALSE)}

\* The steps replay is called with.
ReplayStepInputs ==
    {ReplayStep(PatchText(PathDF, <<"b">>, <<"a">>), FALSE),
     ReplayStep(PatchText(PathD, <<"b">>, <<"a">>), FALSE),
     ReplayStep(PatchText(PathUp, <<"a">>, <<"b">>), FALSE)}

\* The step lists replay is called with: no step, a blank patch text, a
\* reversed step, a step on the index file, and the lists of the steps above.
ReplayInputs ==
    UNION {[1..n -> ReplayStepInputs] : n \in 0..MaxReplaySteps}
    \cup {<<ReplayStep(PatchText(PathDF, <<"b">>, <<"a">>), FALSE),
             ReplayStep(PatchBlank, FALSE)>>,
           <<ReplayStep(PatchText(PathDF, <<"b">>, <<"a">>), TRUE)>>,
           <<ReplayStep(PatchText(PathGitIndex, <<"a">>, <<"b">>), FALSE)>>}

\* The files checkout is called with.
CheckoutInputs ==
    {{<<PathA, <<98>>>>}, {<<PathA, <<97>>>>, <<PathDF, <<98>>>>},
     {<<PathD, <<97>>>>}, {<<PathA, <<98>>>>, <<PathInnerUp, <<97>>>>},
     {<<PathUp, <<97>>>>}}

TreeObjectOids == ObjectOids \cup {hashGitObject("blob", <<>>)}

Branches == {"main"}

WorktreeEntry(pathValue, branch, prunable) ==
    [path |-> pathValue, branch |-> branch, prunable |-> prunable]

SubmoduleEntry(pathValue, url, gitlinkOid) ==
    [path |-> pathValue, url |-> url, gitlinkOid |-> gitlinkOid]

TreeWorld == Tree(worktree, objects, indexFile)

EmptyTree == Tree({}, [oid \in TreeObjectOids |-> NoObject], NoIndexFile)

\* What the call returns, with its arguments; pre is the worktree and the
\* state files when the call was made, index the number of the next step of
\* a replay.
NoTreeCall ==
    [op |-> "none", pc |-> "idle", result |-> "", steps |-> <<>>,
     updateIndex |-> FALSE, index |-> 0, paths |-> <<>>,
     payloads |-> {}, appliedPaths |-> <<>>, status |-> "", failedStep |-> <<>>,
     pre |-> [tree |-> EmptyTree, worktrees |-> NoStateFile,
              submodules |-> NoStateFile]]

\* The refs of the repositories clone is called on.
BranchNames == {"main", "dev", "HEAD"}

HeadsRef(branchName) == <<"refs", "heads", branchName>>

OriginRef(branchName) == <<"refs", "remotes", "origin", branchName>>

CloneRefs ==
    {HeadsRef(branchName) : branchName \in BranchNames}
    \cup {OriginRef(branchName) : branchName \in BranchNames}

\* The file HEAD: a symbolic ref or an object id.
HeadSymbolic(refName) == [symbolic |-> TRUE, ref |-> refName, oid |-> <<>>]
HeadDetached(oid) == [symbolic |-> FALSE, ref |-> <<>>, oid |-> oid]

\* A repository with its HEAD; no repository is there when exists is false.
Repository(exists, fs, head) == [exists |-> exists, fs |-> fs, head |-> head]

NoRepository ==
    Repository(FALSE,
               Fs([r \in CloneRefs |-> NoFile], NoPackedFile,
                  [r \in CloneRefs |-> <<>>]),
               HeadDetached(<<>>))

NoCloneCall ==
    [op |-> "none", pc |-> "idle", result |-> "", source |-> NoRepository,
     head |-> NoRepository.head, hasBranch |-> FALSE, branch |-> "",
     collation |-> "", localHeadRefs |-> <<>>, index |-> 0]

\* ------------------------------------------------------------------------
\* Commits and the shallow boundary (unnamed/part_007 58-76, index.ts
\* 643-699).  The payload of a commit is the sequence of the lines of its
\* header, a line the pair of its first word and the text after the space.
\* ------------------------------------------------------------------------

CommitLine(key, value) == [key |-> key, value |-> value]

NoMetadata == [ok |-> FALSE, treeOid |-> <<>>, parentOids |-> <<>>]

\* null when the header is empty or names no tree; the last tree line wins.
parseLastModifiedCommitMetadata(payload) ==
    LET treeLines == SelectSeq(payload, LAMBDA line : line.key = "tree")
        parentLines == SelectSeq(payload, LAMBDA line : line.key = "parent")
        treeOid == IF treeLines = <<>> THEN <<>>
                   ELSE toLowerCase(trim(treeLines[Len(treeLines)].value))
    IN IF payload = <<>> THEN NoMetadata
       ELSE IF Len(treeOid) = 0 THEN NoMetadata
       ELSE [ok |-> TRUE, treeOid |-> treeOid,
             parentOids |-> [i \in 1..Len(parentLines) |->
                                toLowerCase(trim(parentLines[i].value))]]

QueueItem(oid, level) == [oid |-> oid, level |-> level]

\* The loop over metadata.parentOids: seen and queue after it, or the throw.
RECURSIVE shallowParents(_, _, _, _, _)
shallowParents(parentOids, j, nextLevel, queue, seen) ==
    IF j > Len(parentOids) THEN [ok |-> TRUE, queue |-> queue, seen |-> seen]
    ELSE LET parentOid == toLowerCase(parentOids[j])
         IN IF ~isObjectId(parentOid)
            THEN [ok |-> FALSE, queue |-> queue, seen |-> seen]
            ELSE IF MapHas(seen, parentOid) /\ MapGet(seen, parentOid) <= nextLevel
            THEN shallowParents(parentOids, j + 1, nextLevel, queue, seen)
            ELSE shallowParents(parentOids, j + 1, nextLevel,
                                Append(queue, QueueItem(parentOid, nextLevel)),
                                MapSet(seen, parentOid, nextLevel))

\* The loop over the queue, from index on.
RECURSIVE shallowLoop(_, _, _, _, _, _)
shallowLoop(objs, depth, queue, seen, boundaries, index) ==
    IF index > Len(queue) THEN [result |-> "ok", boundaries |-> boundaries]
    ELSE IF queue[index].level >= depth
    THEN shallowLoop(objs, depth, queue, seen,
                     boundaries \cup {queue[index].oid}, index + 1)
    ELSE LET commitPayload == readObject(objs, queue[index].oid)
             metadata == parseLastModifiedCommitMetadata(commitPayload.payload)
             pushed == shallowParents(metadata.parentOids, 1,
                                      queue[index].level + 1, queue, seen)
         IN IF commitPayload.result # "ok"
            THEN [result |-> commitPayload.result, boundaries |-> {}]
            ELSE IF ~metadata.ok \/ ~pushed.ok
            THEN [result |-> "OBJECT_FORMAT_ERROR", boundaries |-> {}]
            ELSE shallowLoop(objs, depth, pushed.queue, pushed.seen, boundaries,
                             index + 1)

\* Mutant: the boundary is the head whatever the depth.
computeShallowBoundaryCommits_Head(objs, headCommitOid, depth, collation) ==
    [result |-> "ok", commits |-> <<toLowerCase(headCommitOid)>>]

computeShallowBoundaryCommits(objs, headCommitOid, depth, collation) ==
    LET normalizedHead == toLowerCase(headCommitOid)
        walked == shallowLoop(objs, depth, <<QueueItem(normalizedHead, 1)>>,
                              {<<normalizedHead, 1>>}, {}, 1)
        boundaries == IF walked.boundaries = {} THEN {normalizedHead}
                      ELSE walked.boundaries
    IN IF walked.result # "ok" THEN [result |-> walked.result, commits |-> <<>>]
       ELSE [result |-> "ok",
             commits |-> sortByLocaleCompare(boundaries, collation)]

\* ------------------------------------------------------------------------
\* lastModified's walk of the history (index.ts 2473-2605, unnamed/part_007
\* 78-108).  The payload of a tree is the sequence of its entries.
\* ------------------------------------------------------------------------

\* 0o40000, the mode of a directory entry
DirectoryMode == 16384

TreeEntry(mode, name, oid) == [mode |-> mode, name |-> name, oid |-> oid]

\* Throws when an entry has no name.
parseLastModifiedTreeEntries(payload) ==
    IF \E i \in 1..Len(payload) : Len(payload[i].name) = 0
    THEN [ok |-> FALSE, entries |-> <<>>]
    ELSE [ok |-> TRUE, entries |-> payload]

readLastModifiedCommitMetadata(objs, commitOid) ==
    LET commitPayload == readObject(objs, commitOid)
        metadata == parseLastModifiedCommitMetadata(commitPayload.payload)
    IN IF ~isObjectId(commitOid)
       THEN [result |-> "INVALID_ARGUMENT", treeOid |-> <<>>, parentOids |-> <<>>]
       ELSE IF commitPayload.result # "ok"
       THEN [result |-> commitPayload.result, treeOid |-> <<>>, parentOids |-> <<>>]
       ELSE IF ~metadata.ok \/ ~isObjectId(metadata.treeOid)
       THEN [result |-> "OBJECT_FORMAT_ERROR", treeOid |-> <<>>, parentOids |-> <<>>]
       ELSE IF \E i \in 1..Len(metadata.parentOids) :
                   ~isObjectId(metadata.parentOids[i])
       THEN [result |-> "OBJECT_FORMAT_ERROR", treeOid |-> <<>>, parentOids |-> <<>>]
       ELSE [result |-> "ok", treeOid |-> metadata.treeOid,
             parentOids |-> metadata.parentOids]

\* The loop over the segments of the path; oid is Null for null.
RECURSIVE pathOidLoop(_, _, _, _)
pathOidLoop(objs, currentTreeOid, segments, index) ==
    IF index > Len(segments) THEN [result |-> "ok", oid |-> Null]
    ELSE IF Len(segments[index]) = 0
    THEN [result |-> "INVALID_ARGUMENT", oid |-> Null]
    ELSE LET treePayload == readObject(objs, currentTreeOid)
             parsed == parseLastModifiedTreeEntries(treePayload.payload)
             found == {i \in 1..Len(parsed.entries) :
                          parsed.entries[i].name = segments[index]}
             entry == parsed.entries[CHOOSE i \in found : \A j \in found : i <= j]
         IN IF treePayload.result # "ok"
            THEN [result |-> treePayload.result, oid |-> Null]
            ELSE IF ~parsed.ok THEN [result |-> "Error", oid |-> Null]
            ELSE IF found = {} THEN [result |-> "ok", oid |-> Null]
            ELSE IF ~isObjectId(entry.oid)
            THEN [result |-> "OBJECT_FORMAT_ERROR", oid |-> Null]
            ELSE IF index = Len(segments)
            THEN [result |-> "ok",
                  oid |-> IF entry.mode = DirectoryMode THEN Null ELSE entry.oid]
            ELSE IF entry.mode # DirectoryMode THEN [result |-> "ok", oid |-> Null]
            ELSE pathOidLoop(objs, entry.oid, segments, index + 1)

readLastModifiedPathOid(objs, treeOid, pathValue) ==
    IF ~isObjectId(treeOid) THEN [result |-> "INVALID_ARGUMENT", oid |-> Null]
    ELSE pathOidLoop(objs, treeOid, split(pathValue), 1)

\* The loop over commit.parentOids: whether a parent differs, or the throw.
RECURSIVE changedFromParent(_, _, _, _, _)
changedFromParent(objs, pathValue, parentOids, j, currentPathOid) ==
    IF j > Len(parentOids) THEN [result |-> "ok", changed |-> FALSE]
    ELSE LET parentCommit == readLastModifiedCommitMetadata(objs, parentOids[j])
             parentPathOid == readLastModifiedPathOid(objs, parentCommit.treeOid,
                                                      pathValue)
         IN IF parentCommit.result # "ok"
            THEN [result |-> parentCommit.result, changed |-> FALSE]
            ELSE IF parentPathOid.result # "ok"
            THEN [result |-> parentPathOid.result, changed |-> FALSE]
            ELSE IF parentPathOid.oid # currentPathOid
            THEN [result |-> "ok", changed |-> TRUE]
            ELSE changedFromParent(objs, pathValue, parentOids, j + 1,
                                   currentPathOid)

\* Mutant: the walk stops at the start commit.
historyLoop_StopAtStart(objs, pathValue, currentCommitOid, seen) ==
    [result |-> "ok", oid |-> currentCommitOid]

\* The loop of resolveLastModifiedHistoryOid; oid is Null for null.
RECURSIVE historyLoop(_, _, _, _)
historyLoop(objs, pathValue, currentCommitOid, seen) ==
    IF currentCommitOid \in seen THEN [result |-> "ok", oid |-> Null]
    ELSE LET commit == readLastModifiedCommitMetadata(objs, currentCommitOid)
             currentPathOid == readLastModifiedPathOid(objs, commit.treeOid,
                                                       pathValue)
             differs == changedFromParent(objs, pathValue, commit.parentOids, 1,
                                          currentPathOid.oid)
             here == [result |-> "ok",
                      oid |-> IF currentPathOid.oid = Null THEN Null
                              ELSE currentCommitOid]
         IN IF commit.result # "ok" THEN [result |-> commit.result, oid |-> Null]
            ELSE IF currentPathOid.result # "ok"
            THEN [result |-> currentPathOid.result, oid |-> Null]
            ELSE IF Len(commit.parentOids) = 0 THEN here
            ELSE IF differs.result # "ok"
            THEN [result |-> differs.result, oid |-> Null]
            ELSE IF differs.changed THEN here
            ELSE historyLoop(objs, pathValue, commit.parentOids[1],
                             seen \cup {currentCommitOid})

resolveLastModifiedHistoryOid(objs, startCommitOid, pathValue) ==
    historyLoop(objs, pathValue, startCommitOid, {})

\* ------------------------------------------------------------------------
\* The histories the queries run on: four commits, their trees and blobs.
\* ------------------------------------------------------------------------

CommitOid(k) == Rep(<<"1", "2", "c", "4">>[k], Sha1HexLen)

CommitOids == {CommitOid(k) : k \in 1..4}

TreeOidEmpty == Rep("e", Sha1HexLen)
TreeOidA == Rep("7", Sha1HexLen)
TreeOidB == Rep("8", Sha1HexLen)
TreeOidD == Rep("9", Sha1HexLen)
TreeOidSub == Rep("6", Sha1HexLen)

\* The trees: empty; a; a with other content; a and the directory d with f.
TreePayloads ==
    {<<TreeOidEmpty, <<>>>>,
     <<TreeOidA, <<TreeEntry(RegularFileMode, <<"a">>, OidA40)>>>>,
     <<TreeOidB, <<TreeEntry(RegularFileMode, <<"a">>, OidB40)>>>>,
     <<TreeOidD, <<TreeEntry(RegularFileMode, <<"a">>, OidA40),
                   TreeEntry(DirectoryMode, <<"d">>, TreeOidSub)>>>>,
     <<TreeOidSub, <<TreeEntry(RegularFileMode, <<"f">>, OidB40)>>>>}

TreeChoices == {TreeOidEmpty, TreeOidA, TreeOidB, TreeOidD}

\* The parents of the commits 1 to 4: a line, a diamond, a merge of a root
\* and a line, a merge with a shortcut to the root, four roots, a parent
\* named twice.
Shapes ==
    {<< <<2>>, <<3>>, <<4>>, <<>> >>,
     << <<2, 3>>, <<4>>, <<4>>, <<>> >>,
     << <<2, 3>>, <<>>, <<4>>, <<>> >>,
     << <<2, 4>>, <<3>>, <<4>>, <<>> >>,
     << <<>>, <<>>, <<>>, <<>> >>,
     << <<2, 2>>, <<3>>, <<>>, <<>> >>}

\* How the header of a commit spells the oid of a parent.
Spell(oid, spelling) ==
    CASE spelling = "plain" -> oid
      [] spelling = "upper" -> [i \in 1..Len(oid) |->
                                   IF oid[i] = "c" THEN "C" ELSE oid[i]] \o <<" ">>
      [] spelling = "short" -> SubSeq(oid, 1, 7)

CommitHeader(treeOid, parents, spelling) ==
    <<CommitLine("tree", treeOid)>>
    \o [i \in 1..Len(parents) |->
           CommitLine("parent", Spell(CommitOid(parents[i]), spelling))]
    \o <<CommitLine("author", <<"x">>)>>

LooseFile(objectType, payload) ==
    ObjectFile(deflateRaw(encodeLooseObject(objectType, payload)))

\* The object store of a history: the commits kept, their trees, the blobs.
History(shape, trees, spelling, kept) ==
    [oid \in {CommitOid(k) : k \in kept} \cup MapKeys(TreePayloads)
             \cup {OidA40, OidB40} |->
        IF oid \in CommitOids
        THEN LET k == CHOOSE n \in 1..4 : CommitOid(n) = oid
             IN LooseFile("commit", CommitHeader(trees[k], shape[k], spelling))
        ELSE IF MapHas(TreePayloads, oid)
        THEN LooseFile("tree", MapGet(TreePayloads, oid))
        ELSE LooseFile("blob", IF oid = OidA40 THEN <<97>> ELSE <<98>>)]

\* Every shape under every choice of trees; and, with one choice of trees,
\* the parents spelled in upper case or cut short, and the last commit
\* missing from the store.
Histories ==
    {History(shape, trees, "plain", 1..4) :
        shape \in Shapes, trees \in [1..4 -> TreeChoices]}
    \cup {History(shape, [k \in 1..4 |-> TreeOidA], spelling, 1..4) :
             shape \in Shapes, spelling \in {"upper", "short"}}
    \cup {History(shape, [k \in 1..4 |-> TreeOidA], "plain", 1..3) :
             shape \in Shapes}

\* ------------------------------------------------------------------------
\* The queries: the call, what it was called with and what it returned.
\* ------------------------------------------------------------------------

NoQueryCall ==
    [op |-> "none", result |-> "", head |-> <<>>, depth |-> 0, collation |-> "",
     commits |-> <<>>, path |-> <<>>, oid |-> Null,
     paths |-> <<>>, mode |-> "", rules |-> <<>>, selected |-> <<>>]

\* The greatest depth a shallow clone is asked for.
MaxDepth == 3

QueryStep(frame) ==
    /\ queryCall' = frame
    /\ UNCHANGED <<refVars, rebaseVars, objVars, treeVars, pktCall, cloneCall>>

ComputeShallowBoundaryCommits ==
    /\ queryCall.op = "none"
    /\ \E head \in CommitOids, depth \in 1..MaxDepth, collation \in Collations :
       \E boundary \in {computeShallowBoundaryCommits(objects, head, depth,
                                                      collation)} :
           QueryStep([NoQueryCall EXCEPT
                         !.op = "computeShallowBoundaryCommits",
                         !.head = head, !.depth = depth,
                         !.collation = collation,
                         !.result = boundary.result,
                         !.commits = boundary.commits])

\* The paths lastModified is asked about: a file, a file in a directory, a
\* directory, a path no tree has, a path with an empty segment.
LastModifiedPaths == {PathA, PathDF, PathD, PathMissing, <<"d", "/", "/", "f">>}

ResolveLastModifiedHistoryOid ==
    /\ queryCall.op = "none"
    /\ \E startCommitOid \in CommitOids, pathValue \in LastModifiedPaths :
       \E found \in {resolveLastModifiedHistoryOid(objects, startCommitOid,
                                                   pathValue)} :
           QueryStep([NoQueryCall EXCEPT
                         !.op = "resolveLastModifiedHistoryOid",
                         !.head = startCommitOid, !.path = pathValue,
                         !.result = found.result, !.oid = found.oid])

\* The caller takes the result.
FinishQuery ==
    /\ queryCall.op # "none"
    /\ QueryStep(NoQueryCall)

NextQuery ==
    \/ ComputeShallowBoundaryCommits
    \/ ResolveLastModifiedHistoryOid
    \/ FinishQuery

\* The paths selectSparsePaths is asked about: a file, a nested file, a path
\* with a backslash, one with a leading slash, a name that starts as the
\* directory does, and an unsafe path.
SparsePaths ==
    {PathA, PathDF, PathWin, <<"/", "d", "/", "f">>, <<"d", "e">>, PathUp}

SparsePathLists ==
    {<<p>> : p \in SparsePaths} \cup {<<p, q>> : p \in SparsePaths, q \in SparsePaths}

\* The rules: the root, a directory, the directory with blanks and a
\* trailing slash, a nested file, a file, a rule longer than the paths.
SparseRules ==
    {RuleDot, PathD, <<" ", "d", "/", " ">>, PathDF, PathA,
     <<"d", "/", "f", "/", "g">>}

\* The greatest number of rules of a call.
MaxRules == 2

SparseRuleLists == UNION {[1..n -> SparseRules] : n \in 0..MaxRules}

SelectSparsePaths ==
    /\ queryCall.op = "none"
    /\ \E paths \in SparsePathLists, mode \in {"cone", "pattern"},
          rules \in SparseRuleLists, collation \in Collations :
       \E selection \in {selectSparsePaths(paths, mode, rules, collation)} :
           QueryStep([NoQueryCall EXCEPT
                         !.op = "selectSparsePaths",
                         !.paths = paths, !.mode = mode, !.rules = rules,
                         !.collation = collation,
                         !.result = IF selection.ok THEN "ok" ELSE "Error",
                         !.selected = selection.selected])

NextSparse ==
    \/ SelectSparsePaths
    \/ FinishQuery

TreeStep(frame, tree, linked, subs) ==
    /\ treeCall' = frame
    /\ worktree' = tree.files
    /\ objects' = tree.objects
    /\ indexFile' = tree.indexFile
    /\ worktrees' = linked
    /\ submodules' = subs
    /\ UNCHANGED <<partialClone, sparseFile, lastObj, objCalls>>
    /\ UNCHANGED <<refVars, rebaseVars, wireVars>>

TreeCall(frame, tree, linked, subs) ==
    /\ treeCall.op = "none"
    /\ treeCalls < MaxTreeCalls
    /\ treeCalls' = treeCalls + 1
    /\ TreeStep([frame EXCEPT !.pc = IF frame.pc = "idle" THEN "done" ELSE frame.pc,
                              !.pre = [tree |-> TreeWorld, worktrees |-> worktrees,
                                       submodules |-> submodules]],
                tree, linked, subs)

Checkout ==
    \E payloads \in CheckoutInputs, collation \in Collations :
        LET done == checkout(TreeWorld, payloads, collation)
        IN TreeCall([NoTreeCall EXCEPT !.op = "checkout", !.result = done.result,
                                       !.payloads = payloads],
                    done.tree, worktrees, submodules)

ApplyPatch ==
    /\ treeCall.op = "none"
    /\ treeCalls < MaxTreeCalls
    /\ \E step \in ApplyPatchInputs, updateIndex \in BOOLEAN,
          collation \in Collations :
        \E applied \in {applyPatch(TreeWorld, step.patchText, step.reverse,
                                    updateIndex, collation)} :
        LET patchText == step.patchText
            reverse == step.reverse
        IN TreeCall([NoTreeCall EXCEPT
                        !.op = "applyPatch",
                        !.result = IF applied.ok THEN "ok" ELSE "Error",
                        !.steps = <<ReplayStep(patchText, reverse)>>,
                        !.updateIndex = updateIndex,
                        !.appliedPaths = IF applied.ok THEN <<applied.appliedPath>>
                                         ELSE <<>>],
                    applied.tree, worktrees, submodules)

AddInWorktree ==
    /\ treeCall.op = "none"
    /\ treeCalls < MaxTreeCalls
    /\ \E paths \in {<<PathA>>, <<PathA, PathUp>>, <<PathDF>>, <<PathGitIndex>>},
          collation \in Collations :
        \E staged \in {addInTree(TreeWorld, paths, collation)} :
           TreeCall([NoTreeCall EXCEPT !.op = "add", !.result = staged.result,
                                       !.paths = paths],
                    staged.tree, worktrees, submodules)

Replay ==
    \E steps \in ReplayInputs, updateIndex \in BOOLEAN :
        LET replayValidation == validateReplaySteps(steps)
            frame == [NoTreeCall EXCEPT !.op = "replay", !.steps = steps,
                                        !.updateIndex = updateIndex]
        IN TreeCall(IF replayValidation.ok
                    THEN [frame EXCEPT !.pc = "loop"]
                    ELSE [frame EXCEPT !.result = "INVALID_ARGUMENT"],
                    TreeWorld, worktrees, submodules)

\* One turn of the loop of replay: applyPatch of the step at index.
ReplayApplyStep ==
    /\ treeCall.op = "replay"
    /\ treeCall.pc = "loop"
    /\ treeCall.index < Len(treeCall.steps)
    /\ UNCHANGED treeCalls
    /\ \E collation \in Collations :
       \E step \in {treeCall.steps[treeCall.index + 1]} :
       \E applyResult \in {applyPatch(TreeWorld, step.patchText, step.reverse,
                                      treeCall.updateIndex, collation)} :
       LET conflict == replayConflict(treeCall.appliedPaths, treeCall.index)
       IN TreeStep(IF applyResult.ok
                   THEN [treeCall EXCEPT
                            !.appliedPaths = Append(@, applyResult.appliedPath),
                            !.index = @ + 1]
                   ELSE [treeCall EXCEPT
                            !.pc = "done", !.result = "ok",
                            !.status = conflict.status,
                            !.appliedPaths = conflict.appliedPaths,
                            !.failedStep = conflict.failedStep],
                   applyResult.tree, worktrees, submodules)

ReplayReturn ==
    /\ treeCall.op = "replay"
    /\ treeCall.pc = "loop"
    /\ treeCall.index = Len(treeCall.steps)
    /\ UNCHANGED treeCalls
    /\ LET completed == replayCompleted(treeCall.appliedPaths)
       IN TreeStep([treeCall EXCEPT !.pc = "done", !.result = "ok",
                                    !.status = completed.status,
                                    !.appliedPaths = completed.appliedPaths,
                                    !.failedStep = completed.failedStep],
                   TreeWorld, worktrees, submodules)

AddWorktree ==
    \E pathValue \in {PathA, PathUp}, branch \in Branches,
       collation \in Collations :
        LET current == readWorktreeEntries(worktrees, collation)
            next == upsertWorktree(current,
                                   WorktreeEntry(pathValue, branch, FALSE),
                                   collation)
        IN TreeCall([NoTreeCall EXCEPT
                        !.op = "addWorktree",
                        !.result = IF next.ok THEN "ok" ELSE "Error",
                        !.paths = <<pathValue>>],
                    TreeWorld,
                    IF next.ok THEN writeWorktreeEntries(next.entries)
                    ELSE worktrees,
                    submodules)

MarkWorktreePrunable ==
    \E pathValue \in {PathA, PathUp}, collation \in Collations :
        LET current == readWorktreeEntries(worktrees, collation)
        IN TreeCall([NoTreeCall EXCEPT !.op = "markWorktreePrunable",
                                       !.result = "ok", !.paths = <<pathValue>>],
                    TreeWorld,
                    writeWorktreeEntries(
                        normalizeWorktrees(markPrunable(current, pathValue),
                                           collation)),
                    submodules)

PruneWorktrees ==
    \E collation \in Collations :
        LET current == readWorktreeEntries(worktrees, collation)
        IN TreeCall([NoTreeCall EXCEPT !.op = "pruneWorktrees", !.result = "ok"],
                    TreeWorld,
                    writeWorktreeEntries(pruneWorktrees(current, collation)),
                    submodules)

AddSubmodule ==
    \E pathValue \in {PathD, PathUp}, collation \in Collations :
        LET current == readWorktreeEntries(submodules, collation)
            next == upsertWorktree(current,
                                   SubmoduleEntry(pathValue, "url", OidA40),
                                   collation)
        IN TreeCall([NoTreeCall EXCEPT
                        !.op = "addSubmodule",
                        !.result = IF next.ok THEN "ok" ELSE "Error",
                        !.paths = <<pathValue>>],
                    TreeWorld, worktrees,
                    IF next.ok THEN writeWorktreeEntries(next.entries)
                    ELSE submodules)

\* The caller takes the result.
FinishTree ==
    /\ treeCall.pc = "done"
    /\ treeCall' = NoTreeCall
    /\ UNCHANGED <<worktree, worktrees, submodules, treeCalls>>
    /\ UNCHANGED <<refVars, rebaseVars, objVars, wireVars>>

NextTree ==
    \/ Checkout
    \/ ApplyPatch
    \/ AddInWorktree
    \/ Replay
    \/ ReplayApplyStep
    \/ ReplayReturn
    \/ AddWorktree
    \/ MarkWorktreePrunable
    \/ PruneWorktrees
    \/ AddSubmodule
    \/ FinishTree

\* Worktrees the calls above have produced before the session starts.
\* The worktrees the calls below have produced before the session starts:
\* none, a file checked out, and that file staged.
InitTrees ==
    LET checkedOut == checkout(EmptyTree, {<<PathA, <<97>>>>}, "codeunit").tree
    IN {EmptyTree, checkedOut, addInTree(checkedOut, <<PathA>>, "codeunit").tree}

InitWorktrees ==
    {NoStateFile,
     writeWorktreeEntries(
         normalizeWorktrees(
             markPrunable(
                 upsertWorktree(
                     upsertWorktree(<<>>, WorktreeEntry(PathA, "main", FALSE),
                                    "codeunit").entries,
                     WorktreeEntry(PathD, "main", FALSE), "codeunit").entries,
                 PathD),
             "codeunit"))}

\* ------------------------------------------------------------------------
\* Pkt-line framing (core/protocol/pkt-line.ts).  A byte array is its first
\* bytes, written out, and the number of bytes that follow them, which are
\* all zero: the arrays of the model differ in their first bytes and in
\* their length only.
\* ------------------------------------------------------------------------

PKT_LINE_MAX_TOTAL_BYTES == 65520
PKT_LINE_MAX_DATA_BYTES == 65516

Bytes(first, pad) == [bytes |-> first, pad |-> pad]

NoBytes == Bytes(<<>>, 0)

byteLength(array) == Len(array.bytes) + array.pad

ByteAt(array, i) == IF i <= Len(array.bytes) THEN array.bytes[i] ELSE 0

\* The two arrays hold the same bytes.
SameBytes(a, b) ==
    /\ byteLength(a) = byteLength(b)
    /\ \A i \in 1..(Len(a.bytes) + Len(b.bytes)) :
           i <= byteLength(a) => ByteAt(a, i) = ByteAt(b, i)

\* array.subarray(0, n), for n bytes the array has
firstBytes(array, n) == [i \in 1..n |-> ByteAt(array, i)]

\* array.subarray(n), for n bytes the array has
subarray(array, n) ==
    IF n <= Len(array.bytes)
    THEN Bytes(SubSeq(array.bytes, n + 1, Len(array.bytes)), array.pad)
    ELSE Bytes(<<>>, array.pad - (n - Len(array.bytes)))

\* out.set(prefix, 0); out.set(data, prefix.byteLength)
concatBytes(prefix, data) == Bytes(prefix \o data.bytes, data.pad)

\* n.toString(16)
RECURSIVE toString16(_)
toString16(n) ==
    IF n < 16 THEN <<DigestDigits[n + 1]>>
    ELSE toString16(n \div 16) \o <<DigestDigits[(n % 16) + 1]>>

\* text.padStart(width, fill)
RECURSIVE padStart(_, _, _)
padStart(text, width, fill) ==
    IF Len(text) >= width THEN text ELSE padStart(<<fill>> \o text, width, fill)

\* The value of the character of the code as a hex digit, -1 when it is
\* none.
HexDigitValue(code) ==
    IF code >= 48 /\ code <= 57 THEN code - 48
    ELSE IF code >= 97 /\ code <= 102 THEN code - 87
    ELSE IF code >= 65 /\ code <= 70 THEN code - 55
    ELSE -1

\* The white space Number.parseInt skips, among the codes of one byte.
WhiteSpaceCodes == {9, 10, 11, 12, 13, 32, 160}

RECURSIVE skipWhiteSpace(_)
skipWhiteSpace(codes) ==
    IF codes # <<>> /\ Head(codes) \in WhiteSpaceCodes
    THEN skipWhiteSpace(Tail(codes))
    ELSE codes

\* The value of the longest run of hex digits the codes start with, after
\* the value so far.
RECURSIVE hexRun(_, _)
hexRun(codes, value) ==
    IF codes = <<>> \/ HexDigitValue(Head(codes)) < 0 THEN value
    ELSE hexRun(Tail(codes), value * 16 + HexDigitValue(Head(codes)))

NaN == [isNaN |-> TRUE, value |-> 0]

\* Number.parseInt(String.fromCharCode(...codes), 16): white space, a sign
\* and "0x" may come before the digits, and what follows them is ignored.
parseInt16(codes) ==
    LET trimmed == skipWhiteSpace(codes)
        signed == trimmed # <<>> /\ Head(trimmed) \in {43, 45}
        unsignedPart == IF signed THEN Tail(trimmed) ELSE trimmed
        prefixed == /\ Len(unsignedPart) >= 2
                    /\ unsignedPart[1] = 48
                    /\ unsignedPart[2] \in {88, 120}
        digits == IF prefixed THEN Tail(Tail(unsignedPart)) ELSE unsignedPart
        magnitude == hexRun(digits, 0)
    IN IF digits = <<>> \/ HexDigitValue(Head(digits)) < 0 THEN NaN
       ELSE [isNaN |-> FALSE,
             value |-> IF signed /\ Head(trimmed) = 45 THEN 0 - magnitude
                       ELSE magnitude]

PktError(message) == [result |-> message, data |-> NoBytes]

parsePktLine(frame) ==
    LET totalLength == parseInt16(firstBytes(frame, 4))
        dataLength == totalLength.value - 4
    IN IF byteLength(frame) < 4 THEN PktError("pkt-line frame header is short")
       ELSE IF totalLength.isNaN THEN PktError("pkt-line length header invalid")
       ELSE IF totalLength.value = 0 THEN [result |-> "ok", data |-> NoBytes]
       ELSE IF totalLength.value < 4 THEN PktError("pkt-line total length invalid")
       ELSE IF dataLength > PKT_LINE_MAX_DATA_BYTES
       THEN PktError("pkt-line data length limit exceeded")
       ELSE IF totalLength.value > PKT_LINE_MAX_TOTAL_BYTES
       THEN PktError("pkt-line total length limit exceeded")
       ELSE IF byteLength(frame) # totalLength.value
       THEN PktError("pkt-line payload length mismatch")
       ELSE [result |-> "ok", data |-> subarray(frame, 4)]

\* Mutant: the length is written without its leading zeros.
makePktLine_Unpadded(data) ==
    IF byteLength(data) > PKT_LINE_MAX_DATA_BYTES
    THEN [result |-> "pkt-line data length limit exceeded", frame |-> NoBytes]
    ELSE [result |-> "ok",
          frame |-> concatBytes(toBytes(toString16(byteLength(data) + 4)), data)]

makePktLine(data) ==
    LET totalLength == byteLength(data) + 4
        prefix == toBytes(padStart(toString16(totalLength), 4, "0"))
    IN IF byteLength(data) > PKT_LINE_MAX_DATA_BYTES
       THEN [result |-> "pkt-line data length limit exceeded", frame |-> NoBytes]
       ELSE [result |-> "ok", frame |-> concatBytes(prefix, data)]

\* The most bytes of an array the model writes out.
MaxFirstBytes == 2

\* The lengths of what follows the first bytes: short ones, the ones at
\* which the length takes one more hex digit, and the ones about the limit.
PadInputs == {0, 1, 10, 11, 12, 250, 251, 252, 4090, 4091, 4092, 65510,
              65514, 65515, 65516, 65517}

\* The data makePktLine is called with.
PktDataInputs ==
    {Bytes(first, pad) :
        first \in UNION {[1..n -> {97, 48}] : n \in 0..MaxFirstBytes},
        pad \in PadInputs}

\* The length prefixes of the frames parsePktLine is called with: the flush
\* packet, lengths below, at and above the limits, upper case, and text
\* that is not four hex digits.
PrefixTexts ==
    {<<"0", "0", "0", "0">>, <<"0", "0", "0", "3">>, <<"0", "0", "0", "4">>,
     <<"0", "0", "0", "6">>, <<"0", "0", "f", "e">>, <<"f", "f", "f", "0">>,
     <<"F", "F", "F", "0">>, <<"f", "f", "f", "1">>, <<"f", "f", "f", "f">>,
     <<"0", "x", "0", "6">>, <<" ", " ", " ", "6">>, <<"-", "0", "0", "6">>,
     <<"6", "z", "z", "z">>, <<"z", "z", "z", "z">>, <<"-", "0", "0", "0">>}

\* The frames parsePktLine is called with: a prefix and data after it, and
\* frames too short for a prefix.
PktFrameInputs ==
    {Bytes(toBytes(text) \o first, pad) :
        text \in PrefixTexts,
        first \in UNION {[1..n -> {97}] : n \in {0, MaxFirstBytes}},
        pad \in {0, 1, 2, 250, 65514, 65515, 65516, 65517}}
    \cup {Bytes(<<>>, 0), Bytes(<<48, 48, 48>>, 0)}

NoPktCall ==
    [op |-> "none", data |-> NoBytes, frame |-> NoBytes, made |-> FALSE,
     result |-> "", parsed |-> NoBytes]

MakePktLine ==
    /\ pktCall.op = "none"
    /\ \E data \in PktDataInputs :
           LET made == makePktLine(data)
           IN pktCall' = [NoPktCall EXCEPT !.op = "makePktLine", !.data = data,
                                           !.frame = made.frame,
                                           !.result = made.result]
    /\ UNCHANGED <<refVars, rebaseVars, objVars, treeVars, cloneCall, queryCall>>

\* The frame makePktLine returned goes to parsePktLine.
ParseMadePktLine ==
    /\ pktCall.op = "makePktLine"
    /\ pktCall.result = "ok"
    /\ LET parsed == parsePktLine(pktCall.frame)
       IN pktCall' = [pktCall EXCEPT !.op = "parsePktLine", !.made = TRUE,
                                     !.result = parsed.result,
                                     !.parsed = parsed.data]
    /\ UNCHANGED <<refVars, rebaseVars, objVars, treeVars, cloneCall, queryCall>>

ParsePktLine ==
    /\ pktCall.op = "none"
    /\ \E frame \in PktFrameInputs :
           LET parsed == parsePktLine(frame)
           IN pktCall' = [NoPktCall EXCEPT !.op = "parsePktLine",
                                           !.frame = frame,
                                           !.result = parsed.result,
                                           !.parsed = parsed.data]
    /\ UNCHANGED <<refVars, rebaseVars, objVars, treeVars, cloneCall, queryCall>>

\* The caller takes the result.
FinishPkt ==
    /\ pktCall.op # "none"
    /\ pktCall' = NoPktCall
    /\ UNCHANGED <<refVars, rebaseVars, objVars, treeVars, cloneCall, queryCall>>

NextPkt ==
    \/ MakePktLine
    \/ ParseMadePktLine
    \/ ParsePktLine
    \/ FinishPkt


\* No worktree call is running and no state file is there.
InitTreeIdle ==
    /\ worktree = {}
    /\ worktrees = NoStateFile
    /\ submodules = NoStateFile
    /\ treeCall = NoTreeCall
    /\ treeCalls = 0
    /\ pktCall = NoPktCall
    /\ cloneCall = NoCloneCall
    /\ queryCall = NoQueryCall

\* A repository with no objects, index, sparse rules or promisor table.
InitObjects ==
    /\ objects = EmptyStore.objects
    /\ partialClone = EmptyStore.partialClone
    /\ indexFile = EmptyStore.indexFile
    /\ sparseFile = EmptyStore.sparseFile
    /\ lastObj = NoObjCall
    /\ objCalls = 0

Init ==
    /\ InitObjects
    /\ InitTreeIdle
    /\ loose \in LooseInits
    /\ packed \in PackedInits
    /\ reflog = [r \in Refs |-> <<>>]
    /\ proc = [p \in Procs |-> IdleFrame]
    /\ calls = [r \in Refs |-> <<>>]
    /\ rebaseFile = NoRebaseFile
    /\ lastRebase = NoRebaseCall

Next ==
    \/ CallResolveRef
    \/ CallUpdateRef
    \/ CallCreateRef
    \/ CallDeleteRef
    \/ CallReceivePackUpdate
    \/ CallListRefs
    \/ Finish

Spec == Init /\ [][Next]_vars

SpecRebase == Init /\ [][NextRebase]_vars

InitObj ==
    /\ loose = EmptyFs.loose
    /\ packed = EmptyFs.packed
    /\ reflog = EmptyFs.reflog
    /\ proc = [p \in Procs |-> IdleFrame]
    /\ calls = [r \in Refs |-> <<>>]
    /\ rebaseFile = NoRebaseFile
    /\ lastRebase = NoRebaseCall
    /\ \E st \in InitStores :
           /\ objects = st.objects
           /\ partialClone = st.partialClone
           /\ indexFile = st.indexFile
           /\ sparseFile = st.sparseFile
    /\ lastObj = NoObjCall
    /\ objCalls = 0
    /\ InitTreeIdle

SpecObj == InitObj /\ [][NextObj]_vars

InitTree ==
    /\ loose = EmptyFs.loose
    /\ packed = EmptyFs.packed
    /\ reflog = EmptyFs.reflog
    /\ proc = [p \in Procs |-> IdleFrame]
    /\ calls = [r \in Refs |-> <<>>]
    /\ rebaseFile = NoRebaseFile
    /\ lastRebase = NoRebaseCall
    /\ \E tree \in InitTrees :
           /\ worktree = tree.files
           /\ objects = tree.objects
           /\ indexFile = tree.indexFile
    /\ partialClone = NoPartialCloneFile
    /\ sparseFile = NoSparseFile
    /\ lastObj = NoObjCall
    /\ objCalls = 0
    /\ worktrees \in InitWorktrees
    /\ submodules = NoStateFile
    /\ treeCall = NoTreeCall
    /\ treeCalls = 0
    /\ pktCall = NoPktCall
    /\ cloneCall = NoCloneCall
    /\ queryCall = NoQueryCall

SpecTree == InitTree /\ [][NextTree]_vars

\* The pkt-line codec is called in a repository with nothing in it.
InitPkt == InitTree /\ worktree = {} /\ worktrees = NoStateFile

SpecPkt == InitPkt /\ [][NextPkt]_vars

\* A repository holding one of the histories, and no call running.
InitQuery ==
    /\ loose = EmptyFs.loose
    /\ packed = EmptyFs.packed
    /\ reflog = EmptyFs.reflog
    /\ proc = [p \in Procs |-> IdleFrame]
    /\ calls = [r \in Refs |-> <<>>]
    /\ rebaseFile = NoRebaseFile
    /\ lastRebase = NoRebaseCall
    /\ objects \in Histories
    /\ partialClone = NoPartialCloneFile
    /\ indexFile = NoIndexFile
    /\ sparseFile = NoSparseFile
    /\ lastObj = NoObjCall
    /\ objCalls = 0
    /\ InitTreeIdle

SpecQuery == InitQuery /\ [][NextQuery]_vars

SpecSparse == InitPkt /\ [][NextSparse]_vars

\* ------------------------------------------------------------------------
\* Repo.clone (index.ts 829-1017) of a local repository: the copy of the
\* git directory, the branch option, and the rebinding of the local
\* branches.  The target is the repository of the variables loose, packed
\* and reflog, with its file HEAD in the frame of the call.  The worktree
\* the head commit materializes to is left out.
\* ------------------------------------------------------------------------

\* `ref: ${refName}\n`
SymbolicRefText(refName) == <<"r", "e", "f", ":", " ">> \o refName \o <<"\n">>

\* headValue.startsWith("ref:") ? normalizeRefName(...) : null
headRefOf(head) == IF head.symbolic THEN normalizeRefName(head.ref) ELSE Null

\* headRef?.startsWith("refs/heads/") ? headRef : null
headBranchRefOf(head) ==
    LET headRef == headRefOf(head)
    IN IF /\ Len(headRef) >= 3
          /\ SubSeq(headRef, 1, 2) = <<"refs", "heads">>
       THEN headRef
       ELSE Null

\* The source repositories: branches loose, packed, both or symbolic, the
\* remote-tracking refs of a source that is a clone itself, and a HEAD that
\* is on a branch, detached, or on a ref that is no branch.
CloneSourceFs ==
    {Fs(l, p, [r \in CloneRefs |-> <<>>]) :
        l \in {f \in [CloneRefs -> {NoFile, TextFile(LooseText(OidA40)),
                                    TextFile(LooseText(OidB40)),
                                    TextFile(SymbolicRefText(OriginRef("main")))}] :
                  /\ f[HeadsRef("main")] \in
                         {NoFile, TextFile(LooseText(OidA40)),
                          TextFile(SymbolicRefText(OriginRef("main")))}
                  /\ f[HeadsRef("dev")] \in {NoFile, TextFile(LooseText(OidB40))}
                  /\ f[HeadsRef("HEAD")] \in {NoFile, TextFile(LooseText(OidB40))}
                  /\ f[OriginRef("main")] \in {NoFile, TextFile(LooseText(OidB40))}
                  /\ f[OriginRef("dev")] = NoFile
                  /\ f[OriginRef("HEAD")] \in
                         {NoFile, TextFile(SymbolicRefText(OriginRef("main")))}},
        p \in {NoPackedFile,
               PackedFile(<<PackedEntry(OidB40, HeadsRef("main")),
                            PackedEntry(OidA40, HeadsRef("dev"))>>)}}

CloneSources ==
    {Repository(TRUE, fs, head) :
        fs \in CloneSourceFs,
        head \in {HeadSymbolic(HeadsRef("main")), HeadSymbolic(HeadsRef("dev")),
                  HeadDetached(OidA40), HeadSymbolic(OriginRef("main"))}}

CloneStep(frame, w) ==
    /\ cloneCall' = frame
    /\ loose' = w.loose
    /\ packed' = w.packed
    /\ reflog' = w.reflog
    /\ UNCHANGED <<proc, calls, pktCall, queryCall>>
    /\ UNCHANGED <<rebaseVars, objVars, treeVars>>

\* copyTree of the git directory of the source, the branch option, the read
\* of HEAD and listRefs("refs/heads") (index.ts 899-936).
Clone ==
    /\ cloneCall.op = "none"
    /\ \E source \in CloneSources, hasBranch \in BOOLEAN,
          branch \in {"main", "dev"}, collation \in Collations :
           LET copied == source.fs
               branchRefName == normalizeRefName(<<"heads", branch>>)
               branchOid == resolveRef(copied, branchRefName)
               head == IF hasBranch THEN HeadSymbolic(branchRefName)
                       ELSE source.head
               localHeadRefs ==
                   Run(copied, [Frame(copied, "listRefs", <<>>, <<>>, <<>>, "", 0)
                                   EXCEPT !.prefix = <<"refs", "heads">>,
                                          !.collation = collation]).pr.listing
               frame == [NoCloneCall EXCEPT !.op = "clone", !.source = source,
                                            !.hasBranch = hasBranch,
                                            !.branch = IF hasBranch THEN branch
                                                       ELSE "",
                                            !.collation = collation]
           IN /\ hasBranch \/ branch = "main"
              /\ IF hasBranch /\ branchOid = Null
                 THEN CloneStep([frame EXCEPT !.pc = "done", !.result = "NOT_FOUND",
                                              !.head = source.head],
                                copied)
                 ELSE CloneStep([frame EXCEPT !.pc = "rebind", !.head = head,
                                              !.localHeadRefs = localHeadRefs],
                                copied)

\* One turn of the loop over the local branches (index.ts 937-948):
\* updateRef of the remote-tracking ref, and deleteRef of the branch when
\* HEAD is on another one.
CloneRebind ==
    /\ cloneCall.op = "clone"
    /\ cloneCall.pc = "rebind"
    /\ cloneCall.index < Len(cloneCall.localHeadRefs)
    /\ \E timestamp \in Timestamps :
       LET localHeadRef == cloneCall.localHeadRefs[cloneCall.index + 1]
           branchName == SubSeq(localHeadRef.refName, 3, Len(localHeadRef.refName))
           headBranchRef == headBranchRefOf(cloneCall.head)
           updated == Run(World,
                          Frame(World, "updateRef",
                                normalizeRefName(<<"refs", "remotes", "origin">>
                                                 \o branchName),
                                <<>>, localHeadRef.oid, "clone-remote-track",
                                timestamp))
           deleted == Run(updated.w,
                          Frame(updated.w, "deleteRef",
                                normalizeRefName(localHeadRef.refName), <<>>, <<>>,
                                "clone-prune-local", timestamp))
           next == [cloneCall EXCEPT !.index = @ + 1]
       IN IF updated.pr.result # "ok"
          THEN CloneStep([cloneCall EXCEPT !.pc = "done",
                                           !.result = updated.pr.result],
                         updated.w)
          ELSE IF headBranchRef = Null \/ localHeadRef.refName = headBranchRef
          THEN CloneStep(next, updated.w)
          ELSE IF deleted.pr.result # "ok"
          THEN CloneStep([cloneCall EXCEPT !.pc = "done",
                                           !.result = deleted.pr.result],
                         deleted.w)
          ELSE CloneStep(next, deleted.w)

\* The write of refs/remotes/origin/HEAD and resolveHead (index.ts 949-968,
\* 3193-3220); the rest of clone leaves the refs as they are.
CloneReturn ==
    /\ cloneCall.op = "clone"
    /\ cloneCall.pc = "rebind"
    /\ cloneCall.index = Len(cloneCall.localHeadRefs)
    /\ LET headBranchRef == headBranchRefOf(cloneCall.head)
           headBranchName == SubSeq(headBranchRef, 3, Len(headBranchRef))
           remoteHead == OriginRef("HEAD")
           w == IF headBranchRef = Null THEN World
                ELSE [World EXCEPT !.loose[remoteHead] =
                         TextFile(SymbolicRefText(<<"refs", "remotes", "origin">>
                                                  \o headBranchName))]
           headOid == IF cloneCall.head.symbolic
                      THEN resolveRef(w, headRefOf(cloneCall.head))
                      ELSE cloneCall.head.oid
       IN CloneStep([cloneCall EXCEPT
                        !.pc = "done",
                        !.result = IF cloneCall.head.symbolic /\ headOid = Null
                                   THEN "NOT_FOUND"
                                   ELSE IF ~isObjectId(headOid)
                                   THEN "OBJECT_FORMAT_ERROR"
                                   ELSE "ok"],
                    w)

NextClone ==
    \/ Clone
    \/ CloneRebind
    \/ CloneReturn

\* No repository is at the target.
InitCloneTarget ==
    /\ loose = NoRepository.fs.loose
    /\ packed = NoRepository.fs.packed
    /\ reflog = NoRepository.fs.reflog
    /\ proc = [p \in Procs |-> IdleFrame]
    /\ calls = [r \in Refs |-> <<>>]
    /\ rebaseFile = NoRebaseFile
    /\ lastRebase = NoRebaseCall
    /\ InitObjects
    /\ InitTreeIdle

SpecClone == InitCloneTarget /\ [][NextClone]_vars

\* ------------------------------------------------------------------------
\* Two concurrent receive-pack writers.  Each caller makes one
\* receivePackUpdate call; the steps of the two calls interleave at every
\* await.
\* ------------------------------------------------------------------------

ConcOids == {OidZ40, OidA40, OidB40}

Running(pr) == pr.pc \notin {"idle", "done"}

Step(p) ==
    LET c == StepOf(World, proc[p])
    IN /\ loose' = c.w.loose
       /\ packed' = c.w.packed
       /\ reflog' = c.w.reflog
       /\ proc' = [proc EXCEPT ![p] = c.pr]
       /\ UNCHANGED calls
       /\ UNCHANGED <<rebaseVars, objVars, treeVars, wireVars>>

ReceivePackUpdateBegin ==
    \E p \in Procs, refName \in RefInputs, oldOid \in ConcOids,
       newOid \in ConcOids, timestamp \in Timestamps :
        /\ proc[p].pc = "idle"
        /\ proc' = [proc EXCEPT ![p] =
              [Enter(World, Frame(World, "receivePackUpdate",
                                  normalizeRefName(refName), oldOid, newOid,
                                  DefaultMessages["receivePackUpdate"],
                                  timestamp)).pr
                  EXCEPT !.sawLanded = {q \in Procs : proc[q].landed},
                         !.sawRunning = {q \in Procs : Running(proc[q])}]]
        /\ UNCHANGED <<loose, packed, reflog, calls>>
        /\ UNCHANGED <<rebaseVars, objVars, treeVars, wireVars>>

ResolveRefStat == \E p \in Procs : proc[p].pc = "rs_stat" /\ Step(p)

ResolveRefRead == \E p \in Procs : proc[p].pc = "rs_read" /\ Step(p)

ReadPackedRefsStat == \E p \in Procs : proc[p].pc = "rs_pstat" /\ Step(p)

ReadPackedRefsRead == \E p \in Procs : proc[p].pc = "rs_pread" /\ Step(p)

ReceivePackUpdateCheck == \E p \in Procs : proc[p].pc = "rp_check" /\ Step(p)

UpdateRefWrite == \E p \in Procs : proc[p].pc = "ur_write" /\ Step(p)

UpdateRefLog == \E p \in Procs : proc[p].pc = "ur_log" /\ Step(p)

DeleteRefCheck == \E p \in Procs : proc[p].pc = "dr_check" /\ Step(p)

DeleteRefStat == \E p \in Procs : proc[p].pc = "dr_stat" /\ Step(p)

DeleteRefUnlink == \E p \in Procs : proc[p].pc = "dr_unlink" /\ Step(p)

DeleteRefPackedStat == \E p \in Procs : proc[p].pc = "dr_pstat" /\ Step(p)

DeleteRefPackedRead == \E p \in Procs : proc[p].pc = "dr_pread" /\ Step(p)

DeleteRefPackedWrite == \E p \in Procs : proc[p].pc = "dr_pwrite" /\ Step(p)

DeleteRefLog == \E p \in Procs : proc[p].pc = "dr_log" /\ Step(p)

NextConc ==
    \/ ReceivePackUpdateBegin
    \/ ResolveRefStat
    \/ ResolveRefRead
    \/ ReadPackedRefsStat
    \/ ReadPackedRefsRead
    \/ ReceivePackUpdateCheck
    \/ UpdateRefWrite
    \/ UpdateRefLog
    \/ DeleteRefCheck
    \/ DeleteRefStat
    \/ DeleteRefUnlink
    \/ DeleteRefPackedStat
    \/ DeleteRefPackedRead
    \/ DeleteRefPackedWrite
    \/ DeleteRefLog

SpecConc == Init /\ [][NextConc]_vars

\* ------------------------------------------------------------------------
\* Properties of receivePackUpdate under concurrency (SpecConc).
\* ------------------------------------------------------------------------

SameTarget(p, q) ==
    /\ p # q
    /\ proc[p].op = "receivePackUpdate"
    /\ proc[q].op = "receivePackUpdate"
    /\ proc[p].refName = proc[q].refName
    /\ proc[p].oldArg = proc[q].oldArg

\* C1: of two receivePackUpdate calls that run concurrently on the same ref
\* with the same oldOid, at most one returns successfully, however their
\* filesystem steps interleave.  Stated for the calls that ask for a change
\* (newOid # oldOid), where a second winner overwrites the first.
C1_AtMostOneConcurrentWinner ==
    \A p, q \in Procs :
        (/\ SameTarget(p, q)
         /\ p \in proc[q].sawRunning
         /\ proc[p].newOid # proc[p].oldArg
         /\ proc[q].newOid # proc[q].oldArg
         /\ proc[p].pc = "done"
         /\ proc[q].pc = "done")
        => ~(proc[p].result = "ok" /\ proc[q].result = "ok")

\* C2 as stated: when a receivePackUpdate(ref, old, new) has landed before a
\* second receivePackUpdate on the same ref with the same old resolves, the
\* second fails with LOCK_CONFLICT.
C2_SecondAfterLandedConflicts ==
    \A p, q \in Procs :
        (/\ SameTarget(p, q)
         /\ p \in proc[q].sawLanded
         /\ proc[q].pc = "done")
        => proc[q].result = "LOCK_CONFLICT"

\* C2 amended: when a receivePackUpdate(ref, old, new) with new # old has
\* landed before a second receivePackUpdate on the same ref with the same old
\* resolves, the second fails with LOCK_CONFLICT.
C2_SecondAfterLandedChangeConflicts ==
    \A p, q \in Procs :
        (/\ SameTarget(p, q)
         /\ p \in proc[q].sawLanded
         /\ proc[p].newOid # proc[p].oldArg
         /\ proc[q].pc = "done")
        => proc[q].result = "LOCK_CONFLICT"

C2_Witness ==
    \E p, q \in Procs :
        /\ SameTarget(p, q)
        /\ p \in proc[q].sawLanded
        /\ proc[p].newOid # proc[p].oldArg
        /\ proc[p].newOid = proc[q].newOid
        /\ proc[p].pc = "done"
        /\ proc[p].result = "ok"
        /\ proc[q].pc = "done"
        /\ proc[q].result = "LOCK_CONFLICT"

\* ------------------------------------------------------------------------
\* Properties of the serialized ref API (Spec).
\* ------------------------------------------------------------------------

Last == proc[1]

Returned(op) == Last.pc = "done" /\ Last.op = op

IsZero(oid) == oid = ZeroOid(Len(oid))

HasLooseFile(w, refName) == w.loose[refName].exists

HasPackedEntry(w, refName) ==
    w.packed.exists /\ parsePackedRefs(w.packed.lines, refName) # Null

\* C3: a receivePackUpdate with well-formed oids of equal length succeeds
\* exactly when the ref resolved to oldOid when the call was made (an absent
\* ref counting as the zero oid), and otherwise fails with LOCK_CONFLICT.
C3_SucceedsIffCurrentIsOld ==
    (/\ Returned("receivePackUpdate")
     /\ isObjectId(Last.oldArg)
     /\ isObjectId(Last.newOid)
     /\ Len(Last.oldArg) = Len(Last.newOid))
    => LET current == resolveRef(Last.pre, Last.refName)
           expected == IF current = Null
                       THEN ZeroOid(Len(Last.oldArg))
                       ELSE current
       IN /\ Last.result = "ok" <=> expected = Last.oldArg
          /\ Last.result # "ok" => Last.result = "LOCK_CONFLICT"

C3_Witness ==
    /\ Returned("receivePackUpdate")
    /\ Last.result = "ok"
    /\ resolveRef(Last.pre, Last.refName) = Null
    /\ Last.oldArg = OidZ40
    /\ Last.newOid = OidB40

\* C4: after a successful receivePackUpdate(ref, old, new), ref resolves to
\* new, or to null when new is the zero oid, whether the ref was loose,
\* packed or both.
C4_ResolvesToNewAfterUpdate ==
    (Returned("receivePackUpdate") /\ Last.result = "ok")
    => resolveRef(World, Last.refName) =
           IF IsZero(Last.newOid) THEN Null ELSE Last.newOid

C4_Witness ==
    /\ Returned("receivePackUpdate")
    /\ Last.result = "ok"
    /\ IsZero(Last.newOid)
    /\ HasLooseFile(Last.pre, Last.refName)
    /\ HasPackedEntry(Last.pre, Last.refName)
    /\ resolveRef(World, Last.refName) = Null

\* C8 as stated: whenever a ref name has both a loose file and a packed-refs
\* entry, resolveRef returns the content of the loose file.
C8_LooseFileWins ==
    (/\ Returned("resolveRef")
     /\ HasLooseFile(Last.pre, Last.refName)
     /\ HasPackedEntry(Last.pre, Last.refName))
    => Last.cur = trim(Last.pre.loose[Last.refName].text)

\* C8 amended: whenever a ref name has both a loose file whose trimmed
\* content is an object id and a packed-refs entry, resolveRef returns the
\* loose value.
C8_LooseOidWins ==
    (/\ Returned("resolveRef")
     /\ HasLooseFile(Last.pre, Last.refName)
     /\ isObjectId(trim(Last.pre.loose[Last.refName].text))
     /\ HasPackedEntry(Last.pre, Last.refName))
    => /\ Last.result = "ok"
       /\ Last.cur = trim(Last.pre.loose[Last.refName].text)

C8_Witness ==
    /\ Returned("resolveRef")
    /\ HasLooseFile(Last.pre, Last.refName)
    /\ HasPackedEntry(Last.pre, Last.refName)
    /\ Last.cur = OidA40
    /\ parsePackedRefs(Last.pre.packed.lines, Last.refName) = OidB40

Deletes(pr) ==
    pr.op = "deleteRef" \/ (pr.op = "receivePackUpdate" /\ IsZero(pr.newOid))

IsPrefix(s, t) == Len(s) <= Len(t) /\ SubSeq(t, 1, Len(s)) = s

C11_CreateFailsIffResolves ==
    (Returned("createRef") /\ isObjectId(Last.newOid))
    => LET existing == resolveRef(Last.pre, Last.refName)
       IN /\ Last.result = "ALREADY_EXISTS" <=> existing # Null
          /\ existing # Null
                => /\ World = Last.pre
                   /\ resolveRef(World, Last.refName) = existing
          /\ existing = Null
                => /\ Last.result = "ok"
                   /\ resolveRef(World, Last.refName) = Last.newOid

C11_Witness ==
    /\ Returned("createRef")
    /\ Last.result = "ALREADY_EXISTS"
    /\ Last.newOid = OidB40
    /\ ~HasLooseFile(Last.pre, Last.refName)
    /\ HasPackedEntry(Last.pre, Last.refName)
    /\ resolveRef(World, Last.refName) = OidA40

\* C12: deleteRef(name) fails with NOT_FOUND exactly when name did not
\* resolve when the call was made; after a successful deleteRef(name), name
\* resolves to null, also when it was both a loose file and a packed-refs
\* entry.
C12_DeleteFailsIffAbsent ==
    Returned("deleteRef")
    => /\ Last.result = "NOT_FOUND" <=> resolveRef(Last.pre, Last.refName) = Null
       /\ Last.result # "NOT_FOUND"
             => /\ Last.result = "ok"
                /\ resolveRef(World, Last.refName) = Null

C12_Witness ==
    /\ Returned("deleteRef")
    /\ Last.result = "ok"
    /\ HasLooseFile(Last.pre, Last.refName)
    /\ HasPackedEntry(Last.pre, Last.refName)
    /\ ~HasLooseFile(World, Last.refName)
    /\ ~HasPackedEntry(World, Last.refName)
    /\ resolveRef(World, Last.refName) = Null

HasLooseOid(w, refName) ==
    w.loose[refName].exists /\ isObjectId(trim(w.loose[refName].text))

ListedNames == {Last.listing[i].refName : i \in 1..Len(Last.listing)}

EachNameOnce ==
    \A i, j \in 1..Len(Last.listing) :
        Last.listing[i].refName = Last.listing[j].refName => i = j

\* C13 as stated: listRefs(prefix) returns exactly the refs whose name matches
\* the prefix and that exist as a loose file or as a packed-refs entry, each
\* name once, with the content of the loose file when both exist and with
\* the packed oid otherwise.
C13_ListsEveryLooseOrPacked ==
    (Returned("listRefs") /\ Last.result = "ok")
    => /\ ListedNames =
              {r \in Refs : /\ matchesRefPrefix(r, Last.prefix)
                            /\ \/ HasLooseFile(Last.pre, r)
                               \/ HasPackedEntry(Last.pre, r)}
       /\ EachNameOnce
       /\ \A i \in 1..Len(Last.listing) :
              LET r == Last.listing[i].refName
              IN Last.listing[i].oid =
                     IF HasLooseFile(Last.pre, r)
                     THEN trim(Last.pre.loose[r].text)
                     ELSE parsePackedRefs(Last.pre.packed.lines, r)

\* C13 amended: listRefs(prefix) returns exactly the refs whose name matches
\* the prefix and that exist as a loose file holding an object id or as a
\* packed-refs entry, each name once, with the loose oid when the loose file
\* holds one and with the packed oid otherwise.
C13_ListsLooseOidOrPacked ==
    (Returned("listRefs") /\ Last.result = "ok")
    => /\ ListedNames =
              {r \in Refs : /\ matchesRefPrefix(r, Last.prefix)
                            /\ \/ HasLooseOid(Last.pre, r)
                               \/ HasPackedEntry(Last.pre, r)}
       /\ EachNameOnce
       /\ \A i \in 1..Len(Last.listing) :
              LET r == Last.listing[i].refName
              IN Last.listing[i].oid =
                     IF HasLooseOid(Last.pre, r)
                     THEN trim(Last.pre.loose[r].text)
                     ELSE parsePackedRefs(Last.pre.packed.lines, r)

C13_Witness ==
    /\ Returned("listRefs")
    /\ Last.prefix = <<"refs">>
    /\ Len(Last.listing) = 2
    /\ Last.listing[1] = [refName |-> RefMain, oid |-> OidA40]
    /\ parsePackedRefs(Last.pre.packed.lines, RefMain) = OidB40
    /\ Last.listing[2] = [refName |-> RefTag, oid |-> OidA40]
    /\ ~HasLooseFile(Last.pre, RefTag)

\* ------------------------------------------------------------------------
\* Properties of the rebase state machine (SpecRebase).
\* ------------------------------------------------------------------------

Persisted == ParseRebaseState(rebaseFile.json)

Terminal(state) == state.status \in {"completed", "aborted"}

\* C5: once the persisted rebase state is completed or aborted, no
\* rebaseContinue or rebaseAbort call changes its status.
C5_TerminalStatesStable ==
    [][(/\ rebaseFile.exists
        /\ Terminal(Persisted)
        /\ lastRebase'.op \in {"rebaseContinue", "rebaseAbort"})
       => /\ rebaseFile'.exists
          /\ ParseRebaseState(rebaseFile'.json).status = Persisted.status]_vars

\* C6: every rebaseContinue on an active state adds one to currentIndex, and
\* the state becomes completed exactly at the continue that brings
\* currentIndex to steps.length, staying active before.
C6_CompletedExactlyAtLastStep ==
    [][(/\ rebaseFile.exists
        /\ Persisted.status = "active"
        /\ lastRebase'.op = "rebaseContinue")
       => LET next == ParseRebaseState(rebaseFile'.json)
          IN /\ next.currentIndex = Persisted.currentIndex + 1
             /\ next.status = IF next.currentIndex = Len(next.steps)
                              THEN "completed"
                              ELSE "active"]_vars

\* C7: rebaseContinue on a completed or aborted state returns and persists
\* that state unchanged.
C7_ContinueIgnoredWhenTerminal ==
    (/\ lastRebase.op = "rebaseContinue"
     /\ lastRebase.pre.exists
     /\ Terminal(ParseRebaseState(lastRebase.pre.json)))
    => /\ lastRebase.result = "ok"
       /\ lastRebase.state = ParseRebaseState(lastRebase.pre.json)
       /\ rebaseFile = lastRebase.pre

C7_Witness ==
    /\ lastRebase.op = "rebaseContinue"
    /\ lastRebase.pre.exists
    /\ ParseRebaseState(lastRebase.pre.json).status = "completed"
    /\ Len(lastRebase.state.steps) = 2
    /\ lastRebase.state.currentIndex = 2

\* ------------------------------------------------------------------------
\* Properties of the object store, the index and backfill (SpecObj).
\* ------------------------------------------------------------------------

Range(seq) == {seq[i] : i \in 1..Len(seq)}

\* Ascending in the lexicographic order of the code units, no key twice.
Ascending(keys) ==
    \A i \in 1..(Len(keys) - 1) :
        localeCompare(keys[i], keys[i + 1], "codeunit") < 0

BackfillReturned == lastObj.op = "backfill" /\ lastObj.result = "ok"

Wrote == lastObj.op \in {"writeBlob", "writeTree", "writeCommit"}

PromisorOids(st) == MapKeys(st.partialClone.promisorObjects)

\* C14: every listing the library returns or persists is in ascending
\* lexicographic order of its key, with no key twice: the names listRefs
\* returns, the paths of the index entries add writes, and the oids of
\* backfill's requestedOids and remainingPromisorOids.
C14_ListingsAscendNoDuplicates ==
    /\ Returned("listRefs")
          => Ascending([i \in 1..Len(Last.listing) |-> Last.listing[i].refName])
    /\ indexFile.exists
          => Ascending([i \in 1..Len(indexFile.entries) |->
                           indexFile.entries[i].path])
    /\ BackfillReturned
          => /\ Ascending(lastObj.requestedOids)
             /\ Ascending(lastObj.remainingPromisorOids)

\* C15: once a loose object file exists, no later writeBlob, writeTree,
\* writeCommit or backfill (nor any other call) changes its bytes.
C15_ObjectsNeverOverwritten ==
    [][\A oid \in ObjectOids :
          objects[oid].exists => objects'[oid] = objects[oid]]_vars

C15_Witness ==
    /\ lastObj.op = "writeBlob"
    /\ lastObj.pre.objects[lastObj.oid].exists
    /\ objects[lastObj.oid] = lastObj.pre.objects[lastObj.oid]
    /\ objects[lastObj.oid].bytes #
           deflateRaw(encodeLooseObject("blob", lastObj.payload))

\* C16: after writeBlob, writeTree or writeCommit returns an oid, readObject
\* of that oid yields the payload that was written, whatever calls were made
\* on the repository before.
C16_WriteThenReadRoundTrips ==
    (Wrote /\ lastObj.result = "ok")
    => readObject(objects, lastObj.oid) =
           [result |-> "ok", payload |-> lastObj.payload]

Selected(st, pathValue) ==
    IF st.sparseFile.mode = "cone"
    THEN matchesCone(pathValue, st.sparseFile.rules)
    ELSE matchesPattern(normalizePath(pathValue), st.sparseFile.rules)

\* The promisor oids that are the oid of an index entry of a selected path.
SelectedPromisorOids(st) ==
    {oid \in PromisorOids(st) :
        \E i \in 1..Len(st.indexFile.entries) :
            /\ st.indexFile.entries[i].oid = oid
            /\ Selected(st, st.indexFile.entries[i].path)}

\* The candidates of a backfill call.
CandidateOids(st, options) ==
    IF options.sparse /\ st.sparseFile.exists
    THEN SelectedPromisorOids(st)
    ELSE PromisorOids(st)

MinBatchSizeOf(options) ==
    IF options.hasMinBatchSize THEN options.minBatchSize ELSE DefaultMinBatchSize

ListsExactly(oids, set) == Range(oids) = set /\ Len(oids) = Cardinality(set)

\* C18: when there are fewer candidate oids than minBatchSize, backfill
\* returns skipped-min-batch-size with no fetchedOids and the whole promisor
\* set as remainingPromisorOids, and leaves the persisted promisor state and
\* the object store as they were.
C18_SkippedBelowMinBatchSize ==
    (/\ lastObj.op = "backfill"
     /\ MinBatchSizeOf(lastObj.options) >= 0
     /\ Cardinality(CandidateOids(lastObj.pre, lastObj.options)) <
            MinBatchSizeOf(lastObj.options))
    => /\ lastObj.result = "ok"
       /\ lastObj.status = "skipped-min-batch-size"
       /\ lastObj.fetchedOids = <<>>
       /\ ListsExactly(lastObj.remainingPromisorOids, PromisorOids(lastObj.pre))
       /\ partialClone = lastObj.pre.partialClone
       /\ objects = lastObj.pre.objects

C18_Witness ==
    /\ BackfillReturned
    /\ lastObj.status = "skipped-min-batch-size"
    /\ lastObj.options.minBatchSize = 2
    /\ lastObj.requestedOids = <<OidFake>>
    /\ lastObj.remainingPromisorOids = <<OidFake>>
    /\ ~objects[OidFake].exists

\* C19: after backfill returns completed, the persisted promisor set is the
\* promisor set before the call minus fetchedOids, and
\* remainingPromisorOids lists exactly that set.
C19_CompletedRemovesFetched ==
    (BackfillReturned /\ lastObj.status = "completed")
    => /\ partialClone.exists
       /\ partialClone.promisorObjects =
              {entry \in lastObj.pre.partialClone.promisorObjects :
                  entry[1] \notin Range(lastObj.fetchedOids)}
       /\ ListsExactly(lastObj.remainingPromisorOids, PromisorOids(ObjWorld))

C19_Witness ==
    /\ BackfillReturned
    /\ lastObj.status = "completed"
    /\ lastObj.fetchedOids = <<OidBlobA>>
    /\ lastObj.remainingPromisorOids = <<OidFake>>
    /\ PromisorOids(lastObj.pre) = {OidBlobA, OidFake}
    /\ PromisorOids(ObjWorld) = {OidFake}

\* C20: with sparse: true and a sparse-checkout state present, backfill's
\* requestedOids are exactly the promisor oids that are the oid of some index
\* entry whose path the sparse rules select, and the other promisor oids
\* remain in the promisor set.
C20_SparseRequestsSelectedEntries ==
    (/\ BackfillReturned
     /\ lastObj.options.sparse
     /\ lastObj.pre.sparseFile.exists)
    => /\ ListsExactly(lastObj.requestedOids, SelectedPromisorOids(lastObj.pre))
       /\ \A oid \in PromisorOids(lastObj.pre) \ SelectedPromisorOids(lastObj.pre) :
              oid \in PromisorOids(ObjWorld)

\* ------------------------------------------------------------------------
\* Properties of resolvePromisedObject.
\* ------------------------------------------------------------------------

Resolved == lastObj.op = "resolvePromisedObject"

\* C21: after setPromisorObject(oid, bytes), while the promisor table still
\* holds that entry, resolvePromisedObject(oid) returns exactly bytes, for
\* every valid oid and every byte payload (also the payload of no bytes).
C21_ResolveReturnsPromisedBytes ==
    Resolved =>
        \A entry \in lastObj.pre.partialClone.promisorObjects :
            (isObjectId(lastObj.oid) /\ entry[1] = toLowerCase(lastObj.oid)) =>
                (lastObj.result = "ok" /\ lastObj.payload = entry[2])

\* ------------------------------------------------------------------------
\* Properties of replay.
\* ------------------------------------------------------------------------

InReplay == treeCall.op = "replay" /\ treeCall.pc \in {"loop", "done"}

ReplayReturned ==
    treeCall.op = "replay" /\ treeCall.pc = "done" /\ treeCall.result = "ok"

\* C22: for every replay result, appliedPaths.length equals failedStep when
\* the status is conflict, and equals steps.length with failedStep null when
\* the status is completed.
C22_AppliedPathsCountFailedStep ==
    ReplayReturned =>
        /\ treeCall.status \in {"conflict", "completed"}
        /\ treeCall.status = "conflict" =>
               treeCall.failedStep = <<Len(treeCall.appliedPaths)>>
        /\ treeCall.status = "completed" =>
               /\ Len(treeCall.appliedPaths) = Len(treeCall.steps)
               /\ treeCall.failedStep = <<>>

\* A replay that stopped at its second step.
C22_Witness ==
    /\ ReplayReturned
    /\ treeCall.status = "conflict"
    /\ treeCall.failedStep = <<1>>
    /\ Len(treeCall.appliedPaths) = 1

\* The path a step writes and the bytes it writes there.
TargetOf(step) == applyUnifiedPatch(step.patchText, step.reverse).filePath

BytesOf(step) == toBytes(applyUnifiedPatch(step.patchText, step.reverse).nextText)

\* The last of the first k steps that writes the path, 0 when none does.
LastWriter(steps, k, pathValue) ==
    SetMax({0} \cup {j \in 1..k : TargetOf(steps[j]) = pathValue})

\* The files outside the git directory after the first k steps: each path
\* holds what the last step that targets it writes, or what it held before.
FilesAfter(files, steps, k) ==
    {entry \in files : LastWriter(steps, k, entry[1]) = 0}
    \cup {<<TargetOf(steps[j]), BytesOf(steps[j])>> :
             j \in {i \in 1..k : /\ LastWriter(steps, k, TargetOf(steps[i])) = i
                                 /\ TargetOf(steps[i]) # PathGitIndex}}

\* The index entries after the first k steps have been staged.
EntriesAfter(entries, steps, k) ==
    {entry \in Range(entries) : LastWriter(steps, k, entry.path) = 0}
    \cup {[path |-> TargetOf(steps[j]),
           oid |-> hashGitObject("blob", BytesOf(steps[j])),
           mode |-> RegularFileMode] :
             j \in {i \in 1..k : LastWriter(steps, k, TargetOf(steps[i])) = i}}

\* The index file reflects the first k steps: what was staged for them, or,
\* without updateIndex, the bytes of the last of them that writes the file
\* .git/index itself.
IndexReflects(index, steps, k, updateIndex) ==
    LET written == LastWriter(steps, k, PathGitIndex)
    IN IF k = 0 THEN indexFile = index
       ELSE IF updateIndex
       THEN /\ indexFile.exists
            /\ indexFile.header = INDEX_HEADER
            /\ Range(indexFile.entries) = EntriesAfter(index.entries, steps, k)
       ELSE IF written > 0 THEN indexFile = RawIndexFile(BytesOf(steps[written]))
       ELSE indexFile = index

ReplayReflectsApplied ==
    InReplay =>
        LET k == Len(treeCall.appliedPaths)
            pre == treeCall.pre.tree
        IN /\ k <= Len(treeCall.steps)
           /\ \A j \in 1..k : treeCall.appliedPaths[j] = TargetOf(treeCall.steps[j])
           /\ worktree = FilesAfter(pre.files, treeCall.steps, k)
           /\ IndexReflects(pre.indexFile, treeCall.steps, k, treeCall.updateIndex)
           /\ treeCall.status = "conflict" => k < Len(treeCall.steps)
           /\ treeCall.status = "completed" => k = Len(treeCall.steps)

ReplayInListOrder ==
    (treeCall.op = "replay" /\ treeCall'.op = "replay") =>
        \/ /\ treeCall'.appliedPaths = treeCall.appliedPaths
           /\ worktree' = worktree
           /\ indexFile' = indexFile
        \/ /\ treeCall.pc = "loop"
           /\ treeCall'.pc = "loop"
           /\ treeCall'.index = treeCall.index + 1
           /\ treeCall'.appliedPaths =
                  Append(treeCall.appliedPaths,
                         TargetOf(treeCall.steps[treeCall.index + 1]))

\* C23: replay applies its steps strictly in list order and stops at the
\* first failing step k: the worktree (and the index when updateIndex is
\* set) reflects the steps before k, and no step after k has been applied.
C23_ReplayInOrderStopsAtFirstFailure ==
    []ReplayReflectsApplied /\ [][ReplayInListOrder]_vars

\* A replay with updateIndex that applied a step and stopped at the next.
C23_Witness ==
    /\ ReplayReturned
    /\ treeCall.status = "conflict"
    /\ treeCall.updateIndex
    /\ Len(treeCall.appliedPaths) = 1
    /\ worktree # treeCall.pre.tree.files
    /\ indexFile # treeCall.pre.tree.indexFile

\* ------------------------------------------------------------------------
\* add (index.ts 1674-1704)
\* ------------------------------------------------------------------------

AddFailed == lastObj.op = "add" /\ lastObj.result # "ok"

\* C24: when add fails on one of its paths, an unsafe path or a file that
\* cannot be read, the index file is the one before the call: no path of
\* the call is staged.
C24_FailedAddLeavesIndex ==
    AddFailed => indexFile = lastObj.pre.indexFile

\* add failed on its second path, after the blob of the first was written,
\* in a repository that has an index.
C24_Witness ==
    /\ AddFailed
    /\ lastObj.paths = <<PathB, PathMissing>>
    /\ lastObj.pre.indexFile.exists
    /\ objects # lastObj.pre.objects

AddSucceeded ==
    treeCall.op = "add" /\ treeCall.pc = "done" /\ treeCall.result = "ok"

\* The bytes of the file at the path, the index file being the file at
\* .git/index.
CurrentBytes(pathValue) ==
    IF pathValue = PathGitIndex THEN IndexBytes(indexFile)
    ELSE MapGet(worktree, pathValue)

Listed(pathValue) ==
    \E i \in 1..Len(treeCall.paths) : treeCall.paths[i] = pathValue

EntriesAt(entries, pathValue) ==
    {i \in 1..Len(entries) : entries[i].path = pathValue}

StagedAsOnDisk ==
    \A i \in 1..Len(treeCall.paths) :
        LET at == EntriesAt(indexFile.entries, treeCall.paths[i])
        IN /\ Cardinality(at) = 1
           /\ \A j \in at :
                  indexFile.entries[j] =
                      [path |-> treeCall.paths[i],
                       oid |-> hashGitObject("blob", CurrentBytes(treeCall.paths[i])),
                       mode |-> 33188]

UnlistedUnchanged ==
    LET before == treeCall.pre.tree.indexFile.entries
    IN \A pathValue \in {before[i].path : i \in 1..Len(before)}
                      \cup {indexFile.entries[i].path :
                                i \in 1..Len(indexFile.entries)} :
           Listed(pathValue)
           \/ /\ Cardinality(EntriesAt(before, pathValue))
                    = Cardinality(EntriesAt(indexFile.entries, pathValue))
              /\ {before[i] : i \in EntriesAt(before, pathValue)}
                    = {indexFile.entries[i] :
                          i \in EntriesAt(indexFile.entries, pathValue)}

\* C25: after add(paths) succeeded the index holds, for each listed path,
\* exactly one entry, with the path, the oid of the blob of the bytes the
\* file at the path holds, and the mode 33188; the entries of the other
\* paths are those of before the call.
C25_AddStagesCurrentBytes ==
    AddSucceeded => StagedAsOnDisk /\ UnlistedUnchanged

\* ------------------------------------------------------------------------
\* Path safety (unnamed/part_006 5-26) in checkout, applyPatch, replay, add,
\* addSubmodule and addWorktree
\* ------------------------------------------------------------------------

\* The paths the specification calls unsafe: empty, holding NUL, starting
\* with a slash or a backslash, carrying a drive prefix, or with a segment
\* that is empty, "." or "..", backslashes counting as slashes.
UnsafePath(pathValue) ==
    \/ pathValue = <<>>
    \/ \E i \in 1..Len(pathValue) : pathValue[i] = "NUL"
    \/ Head(pathValue) \in {"/", "\\"}
    \/ hasWindowsDrivePrefix(pathValue)
    \/ \E i \in 0..Len(pathValue), j \in 1..(Len(pathValue) + 1) :
           /\ i < j
           /\ i = 0 \/ pathValue[i] \in {"/", "\\"}
           /\ j = Len(pathValue) + 1 \/ pathValue[j] \in {"/", "\\"}
           /\ SubSeq(pathValue, i + 1, j - 1) \in {<<>>, <<".">>, <<".", ".">>}

PathsOf(entries) == {entries[i].path : i \in 1..Len(entries)}

\* The paths something is stored at: the files of the worktree and the
\* entries of the index and of the worktree and submodule lists.
StoredPaths ==
    MapKeys(worktree) \cup PathsOf(indexFile.entries)
    \cup PathsOf(worktrees.entries) \cup PathsOf(submodules.entries)

\* The paths the call was given; a patch that names no target gives the
\* empty path.
GivenPaths ==
    {treeCall.paths[i] : i \in 1..Len(treeCall.paths)}
    \cup MapKeys(treeCall.payloads)
    \cup {patchTarget(treeCall.steps[i].patchText) : i \in 1..Len(treeCall.steps)}

TreeCallReturned ==
    /\ treeCall.pc = "done"
    /\ treeCall.op \in {"checkout", "applyPatch", "replay", "add",
                        "addSubmodule", "addWorktree"}

CallSucceeded ==
    /\ treeCall.result = "ok"
    /\ treeCall.op = "replay" => treeCall.status = "completed"

\* One path of each unsafe kind, and safe ones.
PathSamples ==
    {<<>>, <<"a", "NUL">>, PathUnsafe, <<"\\", "a">>, <<"C", ":", "\\", "a">>,
     <<"c", ":", "/", "a">>, <<"a", "/", "/", "b">>, <<"a", "/">>,
     <<".", "/", "a">>, <<"a", "\\", ".">>, PathUp, PathInnerUp,
     <<"a", "\\", ".", ".", "\\", "b">>, PathA, PathDF, PathWin, PathGitIndex,
     <<".", ".", "a">>, <<"c", ":", "a">>}

\* C26: nothing is stored at an unsafe path: the check the operations make
\* fails for a path of each unsafe kind, and a call of checkout, applyPatch,
\* replay, add, addSubmodule or addWorktree that is given an unsafe path
\* fails.
C26_UnsafePathsRejected ==
    /\ \A pathValue \in PathSamples :
           UnsafePath(pathValue) => ~isSafeWorktreePath(pathValue)
    /\ \A pathValue \in StoredPaths : ~UnsafePath(pathValue)
    /\ (TreeCallReturned /\ \E pathValue \in GivenPaths : UnsafePath(pathValue))
           => ~CallSucceeded

\* checkout wrote the file of a safe path and then rejected an unsafe one.
C26_Witness ==
    /\ TreeCallReturned
    /\ treeCall.op = "checkout"
    /\ treeCall.result = "Error"
    /\ \E pathValue \in GivenPaths : UnsafePath(pathValue)
    /\ worktree # treeCall.pre.tree.files

\* ------------------------------------------------------------------------
\* pruneWorktrees (core/blame/blame.ts 45-49, index.ts 1962-1980)
\* ------------------------------------------------------------------------

Pruned == treeCall.op = "pruneWorktrees" /\ treeCall.pc = "done"

\* listWorktrees()
listWorktrees(file, collation) == readWorktreeEntries(file, collation)

Elements(entries) == {entries[i] : i \in 1..Len(entries)}

\* C29: after pruneWorktrees the list of worktrees holds each entry that was
\* not flagged prunable before the call, as it was, once, and no entry that
\* was flagged.
C29_PruneRemovesExactlyFlagged ==
    Pruned =>
        \A collation \in Collations :
            LET before == listWorktrees(treeCall.pre.worktrees, collation)
                after == listWorktrees(worktrees, collation)
            IN /\ Elements(after) = {entry \in Elements(before) : ~entry.prunable}
               /\ Len(after) = Cardinality(Elements(after))

\* pruneWorktrees ran on a list with a flagged and an unflagged entry.
C29_Witness ==
    /\ Pruned
    /\ \E entry \in Elements(treeCall.pre.worktrees.entries) : entry.prunable
    /\ \E entry \in Elements(treeCall.pre.worktrees.entries) : ~entry.prunable

\* ------------------------------------------------------------------------
\* Pkt-line framing (core/protocol/pkt-line.ts)
\* ------------------------------------------------------------------------

\* The code of the hex digit of the value, in lower case.
LowerHexCode(value) == IF value < 10 THEN 48 + value ELSE 87 + value

\* The lower-case hex of n on four digits.
LowerHex4(n) ==
    <<LowerHexCode(n \div 4096), LowerHexCode((n \div 256) % 16),
      LowerHexCode((n \div 16) % 16), LowerHexCode(n % 16)>>

\* C27: for data of at most 65516 bytes makePktLine returns a frame whose
\* first four bytes are the lower-case hex of the length of the data plus 4,
\* padded with zeros to four digits, and parsePktLine of that frame returns
\* the data.
C27_PktLineRoundTrip ==
    /\ (pktCall.op = "makePktLine"
        /\ byteLength(pktCall.data) <= 65516)
           => /\ pktCall.result = "ok"
              /\ firstBytes(pktCall.frame, 4) = LowerHex4(byteLength(pktCall.data) + 4)
    /\ (pktCall.op = "parsePktLine" /\ pktCall.made)
           => /\ pktCall.result = "ok"
              /\ SameBytes(pktCall.parsed, pktCall.data)

\* The frame of data of 65516 bytes, not all the same, was made and parsed.
C27_Witness ==
    /\ pktCall.op = "parsePktLine"
    /\ pktCall.made
    /\ byteLength(pktCall.data) = 65516
    /\ pktCall.data.bytes = <<97, 48>>
    /\ pktCall.result = "ok"

\* The frame starts with four hex digits.
HasHexPrefix(frame) ==
    /\ byteLength(frame) >= 4
    /\ \A i \in 1..4 : HexDigitValue(ByteAt(frame, i)) >= 0

\* The total length the four hex digits declare.
DeclaredLength(frame) ==
    HexDigitValue(ByteAt(frame, 1)) * 4096 + HexDigitValue(ByteAt(frame, 2)) * 256
    + HexDigitValue(ByteAt(frame, 3)) * 16 + HexDigitValue(ByteAt(frame, 4))

ParsedFrame == pktCall.op = "parsePktLine" /\ HasHexPrefix(pktCall.frame)

\* C28: parsePktLine rejects a frame whose byte length is not the total
\* length its four hex digits declare, and a frame that declares more than
\* 65520 bytes in all or 65516 bytes of data.
C28_MisSizedOrOverLimitRejected ==
    (/\ ParsedFrame
     /\ \/ byteLength(pktCall.frame) # DeclaredLength(pktCall.frame)
        \/ DeclaredLength(pktCall.frame) > 65520
        \/ DeclaredLength(pktCall.frame) - 4 > 65516)
        => pktCall.result # "ok"

\* ------------------------------------------------------------------------
\* Repo.clone (index.ts 926-966)
\* ------------------------------------------------------------------------

Cloned == cloneCall.op = "clone" /\ cloneCall.pc = "done" /\ cloneCall.result = "ok"

\* Each branch of the source has its remote-tracking ref in the target, at
\* the same oid.
BranchesTracked ==
    \A branchName \in BranchNames :
        LET sourceOid == resolveRef(cloneCall.source.fs, HeadsRef(branchName))
        IN sourceOid # Null => resolveRef(World, OriginRef(branchName)) = sourceOid

\* The branch HEAD is on, if it is on one, is the only branch of the target.
OnlyHeadBranchLeft ==
    headBranchRefOf(cloneCall.head) # Null =>
        \A branchName \in BranchNames :
            resolveRef(World, HeadsRef(branchName)) # Null
                => HeadsRef(branchName) = headBranchRefOf(cloneCall.head)

\* C30: after clone, for every branch refs/heads/X of the source,
\* refs/remotes/origin/X resolves to the same oid in the target, and when
\* the HEAD of the target is symbolic to a branch no other ref is left under
\* refs/heads.
C30_CloneRebindsBranches ==
    Cloned => BranchesTracked /\ OnlyHeadBranchLeft

\* ------------------------------------------------------------------------
\* The shallow boundary.
\* ------------------------------------------------------------------------

\* The parents the commit at oid names, none when it cannot be read.
ParentsOf(objs, oid) ==
    LET commitPayload == readObject(objs, oid)
        metadata == parseLastModifiedCommitMetadata(commitPayload.payload)
    IN IF commitPayload.result # "ok" \/ ~metadata.ok THEN {}
       ELSE {metadata.parentOids[i] : i \in 1..Len(metadata.parentOids)}

\* The commits a walk of at most k - 1 parent links from head reaches.
RECURSIVE ReachedWithin(_, _, _)
ReachedWithin(objs, head, k) ==
    IF k = 1 THEN {head}
    ELSE LET before == ReachedWithin(objs, head, k - 1)
         IN before \cup UNION {ParentsOf(objs, oid) : oid \in before}

\* The commits whose shortest walk from head has k - 1 parent links.
LevelSet(objs, head, k) ==
    IF k = 1 THEN {head}
    ELSE ReachedWithin(objs, head, k) \ ReachedWithin(objs, head, k - 1)

\* The number of levels of the history of head.
Levels(objs, head) ==
    CHOOSE k \in 1..(Cardinality(DOMAIN objs) + 1) :
        LevelSet(objs, head, k) # {} /\ LevelSet(objs, head, k + 1) = {}

ShallowReturned ==
    queryCall.op = "computeShallowBoundaryCommits" /\ queryCall.result = "ok"

\* C31: the shallow boundary of (head, depth) is, in lexicographic order,
\* exactly the set of the commits at level depth of the breadth-first walk
\* over the parent links with head at level 1, or the deepest commits
\* reached when the history has fewer levels than depth.
C31_ShallowBoundaryIsLevelDepth ==
    ShallowReturned =>
        LET levels == Levels(objects, queryCall.head)
            level == IF queryCall.depth <= levels THEN queryCall.depth ELSE levels
        IN /\ Ascending(queryCall.commits)
           /\ Range(queryCall.commits)
                  = LevelSet(objects, queryCall.head, level)

\* ------------------------------------------------------------------------
\* The history walk of lastModified.
\* ------------------------------------------------------------------------

\* The parents of a commit, in the order its header names them.
ParentSeq(objs, oid) ==
    parseLastModifiedCommitMetadata(readObject(objs, oid).payload).parentOids

\* The oid the path has in the tree of a commit, Null when it has none.
PathOidAt(objs, oid, pathValue) ==
    readLastModifiedPathOid(
        objs, parseLastModifiedCommitMetadata(readObject(objs, oid).payload).treeOid,
        pathValue).oid

\* The commit is a root, or the path differs from one of its parents.
StopsAt(objs, oid, pathValue) ==
    \/ ParentSeq(objs, oid) = <<>>
    \/ \E parentOid \in Range(ParentSeq(objs, oid)) :
           PathOidAt(objs, parentOid, pathValue) # PathOidAt(objs, oid, pathValue)

\* The first commit on the first-parent line from oid the walk stops at.
RECURSIVE StopCommit(_, _, _)
StopCommit(objs, oid, pathValue) ==
    IF StopsAt(objs, oid, pathValue) THEN oid
    ELSE StopCommit(objs, ParentSeq(objs, oid)[1], pathValue)

HistoryWalkReturned ==
    queryCall.op = "resolveLastModifiedHistoryOid" /\ queryCall.result = "ok"

\* C33: the history walk of lastModified follows first parents from the
\* start commit and returns the first commit whose oid for the path differs
\* from the oid in at least one parent, or the root when it gets there,
\* and null when the path is absent at that commit.
C33_WalkReturnsFirstChange ==
    HistoryWalkReturned =>
        LET stop == StopCommit(objects, queryCall.head, queryCall.path)
        IN queryCall.oid =
               IF PathOidAt(objects, stop, queryCall.path) = Null THEN Null
               ELSE stop

\* The walk went down the first parents of a merge to a change of the path.
C33_Witness ==
    /\ HistoryWalkReturned
    /\ queryCall.oid \notin {Null, queryCall.head}
    /\ Len(ParentSeq(objects, queryCall.head)) = 2
    /\ ParentSeq(objects, queryCall.oid) # <<>>

\* ------------------------------------------------------------------------
\* Cone-mode selection.
\* ------------------------------------------------------------------------

ConeReturned ==
    /\ queryCall.op = "selectSparsePaths"
    /\ queryCall.mode = "cone"
    /\ queryCall.result = "ok"

\* Some normalized rule is "." or its segments are a prefix of the segments.
ConeSelects(segments, rules) ==
    \E rule \in Range(normalizeSparseRules(rules, "codeunit").rules) :
        \/ rule = RuleDot
        \/ LET ruleSegments == split(rule)
           IN /\ Len(ruleSegments) <= Len(segments)
              /\ \A k \in 1..Len(ruleSegments) : ruleSegments[k] = segments[k]

\* C32, as stated: in cone mode selectSparsePaths includes a path p if and
\* only if some normalized rule is "." or the slash-separated segments of
\* the rule are a prefix of the segments of p.
C32_ConeIncludesIffPrefix ==
    ConeReturned =>
        \A p \in Range(queryCall.paths) :
            (p \in Range(queryCall.selected))
                <=> ConeSelects(split(p), queryCall.rules)

\* What the code does keep: in cone mode selectSparsePaths includes the
\* normalized form of a path p (backslashes as slashes, leading slashes
\* stripped) if and only if some normalized rule is "." or the segments of
\* the rule are a prefix of the segments of that normalized form; it
\* includes nothing else.
ConeIncludesNormalizedIffPrefix ==
    ConeReturned =>
        /\ \A p \in Range(queryCall.paths) :
               (normalizePath(p) \in Range(queryCall.selected))
                   <=> ConeSelects(split(normalizePath(p)), queryCall.rules)
        /\ Range(queryCall.selected)
               \subseteq {normalizePath(p) : p \in Range(queryCall.paths)}

\* A directory rule selected a path given with a leading slash and left out
\* the name that only starts as the directory does.
ConeSelectedNormalized ==
    /\ ConeReturned
    /\ RuleDot \notin Range(queryCall.rules)
    /\ queryCall.paths = <<<<"/", "d", "/", "f">>, <<"d", "e">>>>
    /\ queryCall.selected = <<PathDF>>

\* ------------------------------------------------------------------------
\* The bounds of the rebase state.
\* ------------------------------------------------------------------------

\* C34: in every reachable rebase state currentIndex is at least 0 and at
\* most steps.length, and an active state has currentIndex below
\* steps.length, also when the rebase was started with no step.
C34_CurrentIndexWithinSteps ==
    rebaseFile.exists =>
        /\ 0 <= Persisted.currentIndex
        /\ Persisted.currentIndex <= Len(Persisted.steps)
        /\ Persisted.status = "active" =>
               Persisted.currentIndex < Len(Persisted.steps)

Failed(op, codes) == Returned(op) /\ Last.result \in codes

\* C35: a receivePackUpdate call that fails with INVALID_ARGUMENT or
\* LOCK_CONFLICT leaves the ref's loose file, packed-refs and the ref's
\* reflog exactly as they were when the call was made.
C35_FailedReceivePackHasNoEffect ==
    Failed("receivePackUpdate", {"INVALID_ARGUMENT", "LOCK_CONFLICT"})
    => /\ loose[Last.refName] = Last.pre.loose[Last.refName]
       /\ packed = Last.pre.packed
       /\ reflog[Last.refName] = Last.pre.reflog[Last.refName]

C35_Witness ==
    /\ Failed("receivePackUpdate", {"LOCK_CONFLICT"})
    /\ HasLooseFile(Last.pre, Last.refName)
    /\ HasPackedEntry(Last.pre, Last.refName)
    /\ Len(reflog[Last.refName]) > 0
    /\ Last.oldArg = OidB40
    /\ Last.cur = OidA40

\* C36: a backfill call that fails with INTEGRITY_ERROR leaves the persisted
\* promisor set and the loose object store exactly as they were when the
\* call was made.
C36_FailedBackfillHasNoEffect ==
    (lastObj.op = "backfill" /\ lastObj.result = "INTEGRITY_ERROR")
    => /\ partialClone = lastObj.pre.partialClone
       /\ objects = lastObj.pre.objects

\* The part of C36 that holds: the persisted promisor set is as it was.
FailedBackfillKeepsPromisorSet ==
    (lastObj.op = "backfill" /\ lastObj.result = "INTEGRITY_ERROR")
    => partialClone = lastObj.pre.partialClone

\* backfill options with sparse disabled and a minBatchSize of at most 1.
HydrateOptions ==
    {options \in BackfillInputs :
        /\ ~options.sparse
        /\ normalizeBackfillOptions(options).minBatchSize \in 0..1}

Hydrates(st, oid, options, collation) ==
    LET outcome == backfill(st, options, collation)
    IN /\ outcome.ret.result = "ok"
       /\ outcome.ret.status = "completed"
       /\ oid \in Range(outcome.ret.fetchedOids)
       /\ ~MapHas(outcome.st.partialClone.promisorObjects, oid)

\* C38: after setPromisorObject(oid, bytes) succeeds, a backfill with sparse
\* disabled and minBatchSize of at most 1 returns completed with oid among
\* fetchedOids and oid no longer in the promisor set.
C38_PromisorEntryHydrates ==
    (lastObj.op = "setPromisorObject" /\ lastObj.result = "ok")
    => \A options \in HydrateOptions, collation \in Collations :
           Hydrates(ObjWorld, toLowerCase(lastObj.oid), options, collation)

\* The part of C38 that holds: entries of at least one byte are hydrated.
PromisorEntryOfBytesHydrates ==
    (/\ lastObj.op = "setPromisorObject"
     /\ lastObj.result = "ok"
     /\ \A entry \in partialClone.promisorObjects : Len(entry[2]) > 0)
    => \A options \in HydrateOptions, collation \in Collations :
           Hydrates(ObjWorld, toLowerCase(lastObj.oid), options, collation)

\* C37: on one ref, every reflog line appended after the first has an old
\* oid equal to the new oid of the line appended just before it.
C37_ReflogLinesChain ==
    \A r \in Refs :
        \A i \in 2..Len(reflog[r]) :
            reflog[r][i].oldOid = reflog[r][i - 1].newOid

ListedPaths(file) == {entry.path : entry \in Elements(file.entries)}

FlagOf(file, pathValue) ==
    {entry.prunable : entry \in {e \in Elements(file.entries) : e.path = pathValue}}

FlagChanged(pathValue) ==
    /\ pathValue \in ListedPaths(worktrees) \cap ListedPaths(worktrees')
    /\ FlagOf(worktrees, pathValue) # FlagOf(worktrees', pathValue)

\* C39: the prunable flag of an entry that stays listed is changed only by a
\* markWorktreePrunable call with that entry's path.
C39_OnlyMarkChangesFlag ==
    [][\A pathValue \in ListedPaths(worktrees) :
           FlagChanged(pathValue)
           => /\ treeCall'.op = "markWorktreePrunable"
              /\ treeCall'.paths = <<pathValue>>]_vars

\* The part of C39 that holds: no call sets the flag but markWorktreePrunable
\* with the entry's path, and pruneWorktrees changes no flag.
OnlyMarkSetsFlag ==
    [][\A pathValue \in ListedPaths(worktrees) :
           (FlagChanged(pathValue) /\ treeCall'.op # "addWorktree")
           => /\ treeCall'.op = "markWorktreePrunable"
              /\ treeCall'.paths = <<pathValue>>
              /\ FlagOf(worktrees', pathValue) = {TRUE}]_vars

DistinctTargets(p, q) ==
    /\ p # q
    /\ proc[p].op = "receivePackUpdate"
    /\ proc[q].op = "receivePackUpdate"
    /\ proc[p].refName # proc[q].refName
    /\ proc[p].pc = "done"
    /\ proc[q].pc = "done"

\* What the call of p leaves its ref at when it runs alone on the filesystem
\* it started on.
AloneValue(p) ==
    LET pr == proc[p]
        alone == Run(pr.pre, Frame(pr.pre, pr.op, pr.refName, pr.oldArg,
                                   pr.newOid, pr.message, pr.timestamp))
    IN resolveRef(alone.w, pr.refName)

\* C40: when two receivePackUpdate calls on different refs run with their
\* filesystem steps interleaved, each ref ends with the value its own call
\* would have produced alone, also when both calls delete packed refs.
C40_DistinctRefsIndependent ==
    \A p, q \in Procs :
        DistinctTargets(p, q)
        => resolveRef(World, proc[p].refName) = AloneValue(p)

\* The part of C40 that holds: the calls are independent unless both delete
\* a ref that has an entry in packed-refs.
DistinctRefsIndependentUnlessPackedDeletes ==
    \A p, q \in Procs :
        (/\ DistinctTargets(p, q)
         /\ ~(/\ IsZero(proc[p].newOid) /\ IsZero(proc[q].newOid)
              /\ HasPackedEntry(proc[p].pre, proc[p].refName)
              /\ HasPackedEntry(proc[q].pre, proc[q].refName)))
        => resolveRef(World, proc[p].refName) = AloneValue(p)
====
